---- MODULE Spec2Model ----
(***************************************************************************)
(* Payment order lifecycle of the billing subsystem: PaymentService        *)
(* (services/paymentService.js), the Payment model (models/Payment.js)     *)
(* and BillingController (controllers/billingController.js).               *)
(*                                                                         *)
(* Every inbound request runs on its own task.  A task advances from one   *)
(* awaited database or gateway call to the next; each such call is one     *)
(* atomic step, and the synchronous code between two awaits belongs to the *)
(* step that precedes it.  A Mongoose document loaded by findOne is a      *)
(* private snapshot of the stored record; save() writes back only the      *)
(* paths whose in-memory value differs from the loaded one.  The response  *)
(* of a request is visible in the state its last step leads to.            *)
(***************************************************************************)
EXTENDS Integers, Sequences, FiniteSets, TLC

(* ----------------------------- bounds ---------------------------------- *)
\* number of requests started along one behaviour
MaxOps == 3

(* --------------------------- input domains ----------------------------- *)
Tasks == {"t1", "t2"}
\* users with a document in the users collection
Users == {"u1", "u2"}
\* ids the gateway can mint; an id without a record is an unknown order
OrderIds == {"O1", "O2"}
PaymentIds == {"P1", "P2"}
Undefined == "undefined"
Null == "null"
NoArg == "-"

\* config.razorpay.keySecret, resolved by the constructor
keySecret == "key_secret"
keyId == "key_id"
\* a secret the server does not hold
OtherSecret == "other_secret"

\* this.plans
plans ==
  [premium_monthly |-> [amount |-> 99900, currency |-> "INR",
                        description |-> "Premium Monthly Subscription"],
   premium_yearly  |-> [amount |-> 999900, currency |-> "INR",
                        description |-> "Premium Yearly Subscription"]]
PlanTypes == DOMAIN plans

(* ------------------------------ errors --------------------------------- *)
\* An error message is the chain of its parts: `${prefix}: ${inner}` is the
\* prefix followed by the parts of the inner message.
Wrap(prefix, msg) == <<prefix>> \o msg
\* String.prototype.includes on a message
Includes(msg, part) == \E i \in DOMAIN msg : msg[i] = part

\* next(error): the request is handed to the error-handling middleware
HttpNext == 500

NoData ==
  [success |-> FALSE, processed |-> FALSE, paymentId |-> NoArg,
   orderId |-> NoArg, planType |-> NoArg, amount |-> 0, currency |-> NoArg,
   event |-> NoArg]
NoResult == [kind |-> "none", http |-> 0, msg |-> <<>>, data |-> NoData]
Ok(http, data) == [kind |-> "ok", http |-> http, msg |-> <<>>, data |-> data]
Err(http, msg) == [kind |-> "error", http |-> http, msg |-> msg, data |-> NoData]

(* ------------------------- signature verifier -------------------------- *)
\* orderId + '|' + paymentId
Body(orderId, paymentId) == orderId \o "|" \o paymentId
\* crypto.createHmac('sha256', secret).update(body).digest('hex'): a keyed
\* digest, distinct for distinct (secret, body)
Hmac(secret, body) == "hmac(" \o secret \o "," \o body \o ")"

verifySignature_skip(orderId, paymentId, signature) == TRUE
verifySignature(orderId, paymentId, signature) ==
  IF keySecret = Undefined
    THEN FALSE
    ELSE Hmac(keySecret, Body(orderId, paymentId)) = signature

verifySignatureWith_stringKey(secret, orderId, paymentId, signature) ==
  Hmac(secret, Body(orderId, paymentId)) = signature
\* verifySignature on an instance whose constructor resolved this secret:
\* createHmac throws for a key that is undefined, and the catch returns false
verifySignatureWith(secret, orderId, paymentId, signature) ==
  IF secret = Undefined
    THEN FALSE
    ELSE Hmac(secret, Body(orderId, paymentId)) = signature

\* signatures a client can submit for (orderId, paymentId)
ClientSignatures(orderId, paymentId) ==
  { Hmac(keySecret, Body(orderId, paymentId)),
    Hmac(OtherSecret, Body(orderId, paymentId)),
    Hmac(keySecret, Body(orderId, CHOOSE p \in PaymentIds : p # paymentId)) }

(* ---------------------------- Payment model ---------------------------- *)
PaymentPaths ==
  {"userId", "razorpayOrderId", "razorpayPaymentId", "razorpaySignature",
   "amount", "currency", "status", "planType", "failureReason",
   "webhookEventId"}

\* findOne found nothing
NoDoc ==
  [_id |-> 0, userId |-> NoArg, razorpayOrderId |-> NoArg,
   razorpayPaymentId |-> Undefined, razorpaySignature |-> Undefined,
   amount |-> 0, currency |-> NoArg, status |-> NoArg, planType |-> NoArg,
   failureReason |-> Undefined, webhookEventId |-> Undefined, createdAt |-> 0]

\* new Payment({...}) of createOrder
NewPayment(id, userId, orderId, planType) ==
  [_id |-> id, userId |-> userId, razorpayOrderId |-> orderId,
   razorpayPaymentId |-> Undefined, razorpaySignature |-> Undefined,
   amount |-> plans[planType].amount, currency |-> plans[planType].currency,
   status |-> "pending", planType |-> planType,
   failureReason |-> Undefined, webhookEventId |-> Undefined, createdAt |-> 0]

\* timestamps: true - the first save stamps createdAt with the clock, in
\* milliseconds; now is the reading of the clock
Stamp(doc, now) == [doc EXCEPT !.createdAt = now]

\* pre('save'): amounts strictly between 0 and 1 are scaled to paise
preSave(doc) ==
  IF doc.amount > 0 /\ doc.amount < 1
    THEN [doc EXCEPT !.amount = doc.amount * 100]
    ELSE doc

markCompleted_keep(doc, paymentId, signature) ==
  [doc EXCEPT !.status = "completed", !.razorpayPaymentId = paymentId]
markCompleted(doc, paymentId, signature) ==
  [doc EXCEPT !.status = "completed",
              !.razorpayPaymentId = paymentId,
              !.razorpaySignature = signature]

markFailed_noreason(doc, reason) == [doc EXCEPT !.status = "failed"]
markFailed(doc, reason) ==
  [doc EXCEPT !.status = "failed", !.failureReason = reason]

markCancelled_resetsAmount(doc) ==
  [doc EXCEPT !.status = "cancelled", !.amount = 0]
markCancelled(doc) == [doc EXCEPT !.status = "cancelled"]

\* the paths save() sends in $set: those changed since the document was loaded
ModifiedPaths(loaded, mem) == { f \in PaymentPaths : mem[f] # loaded[f] }

Update_wholeDocument(stored, loaded, mem) == preSave(mem)
\* updateOne({_id}, {$set: modified paths}) applied to the stored record
Update(stored, loaded, mem) ==
  [f \in DOMAIN stored |->
     IF f \in ModifiedPaths(loaded, preSave(mem)) THEN preSave(mem)[f] ELSE stored[f]]

(* ------------------------------- state --------------------------------- *)
VARIABLES
  payments,    \* the payments collection, in insertion order; _id = position
  isPremium,   \* User.isPremium of every user document
  task,        \* per task: the request it runs and its local variables
  out,         \* the response sent by the step just taken, if it sent one
  nops         \* requests started so far

vars == <<payments, isPremium, task, out, nops>>

NoArgs ==
  [userId |-> NoArg, planType |-> NoArg, orderId |-> NoArg, paymentId |-> NoArg,
   signature |-> NoArg, reason |-> NoArg, event |-> NoArg,
   endpoint |-> NoArg, token |-> NoArg, arrival |-> NoArg]

\* loaded: the document as findOne returned it; doc: the in-memory document;
\* userWas: isPremium of the user document as findById returned it;
\* gwOrder: id of the order the gateway returned
IdleTask ==
  [op |-> "idle", pc |-> "idle", args |-> NoArgs, loaded |-> NoDoc,
   doc |-> NoDoc, userWas |-> FALSE, gwOrder |-> NoArg]

NoOut ==
  [t |-> NoArg, op |-> "idle", args |-> NoArgs, loaded |-> NoDoc,
   doc |-> NoDoc, result |-> NoResult]

\* Payment.findOne(query): the first record matching the query
Match(orderId, userId, status) ==
  { i \in DOMAIN payments :
      /\ payments[i].razorpayOrderId = orderId
      /\ (userId # NoArg => payments[i].userId = userId)
      /\ (status # NoArg => payments[i].status = status) }
findOne(orderId, userId, status) ==
  IF Match(orderId, userId, status) = {}
    THEN NoDoc
    ELSE payments[CHOOSE i \in Match(orderId, userId, status) :
                    \A j \in Match(orderId, userId, status) : i <= j]

Terminal == {"completed", "failed", "cancelled"}

Init ==
  /\ payments = <<>>
  /\ isPremium = [u \in Users |-> FALSE]
  /\ task = [t \in Tasks |-> IdleTask]
  /\ out = NoOut
  /\ nops = 0

\* a request is accepted by a task that runs none
CanStart(t) == task[t].pc = "idle" /\ nops < MaxOps

\* the request runs up to its next await
Begin(t, op, pc, args, doc) ==
  /\ task' = [task EXCEPT ![t] =
       [IdleTask EXCEPT !.op = op, !.pc = pc, !.args = args,
                        !.loaded = doc, !.doc = doc]]
  /\ out' = NoOut
\* the request ends before its next await
Return(t, op, args, doc, result) ==
  /\ task' = [task EXCEPT ![t] = IdleTask]
  /\ out' = [t |-> t, op |-> op, args |-> args, loaded |-> doc, doc |-> doc,
             result |-> result]
\* a running request goes on to its next await
Goto(t, pc, doc) ==
  /\ task' = [task EXCEPT ![t].pc = pc, ![t].doc = doc]
  /\ out' = NoOut
\* a running request ends with the in-memory document doc
Finish(t, doc, result) ==
  /\ task' = [task EXCEPT ![t] = IdleTask]
  /\ out' = [t |-> t, op |-> task[t].op, args |-> task[t].args,
             loaded |-> task[t].loaded, doc |-> doc, result |-> result]

\* document.save() of a loaded payment: the stored record after the update
SavePayment(t, mem) ==
  [payments EXCEPT ![task[t].loaded._id] = Update(@, task[t].loaded, mem)]

(* ----------------------------- createOrder ----------------------------- *)
\* BillingController.createUpgradeOrder: status of a failed createOrder
createUpgradeOrderError_badRequest(msg) == Err(400, msg)
createUpgradeOrderError(msg) ==
  IF Includes(msg, "Invalid plan type") THEN Err(400, <<"Invalid plan type">>)
  ELSE IF Includes(msg, "User is already premium")
    THEN Err(409, <<"User is already premium">>)
  ELSE Err(HttpNext, msg)

createOrderThrow(inner) ==
  createUpgradeOrderError(Wrap("Failed to create order", inner))

CreateOrder_noPremiumCheck(t, userId, planType) ==
  LET args == [NoArgs EXCEPT !.userId = userId, !.planType = planType]
      fail(inner) == Return(t, "createOrder", args, NoDoc, createOrderThrow(inner))
  IN
  /\ CanStart(t)
  /\ nops' = nops + 1
  /\ IF keyId = Undefined \/ keySecret = Undefined
       THEN fail(<<"Razorpay credentials are missing">>)
     ELSE IF planType \notin PlanTypes THEN fail(<<"Invalid plan type">>)
     ELSE IF userId \notin Users THEN fail(<<"User not found">>)
     ELSE Begin(t, "createOrder", "co_gateway", args, NoDoc)
  /\ UNCHANGED <<payments, isPremium>>

\* credentials check, plan lookup, User.findById, premium check
CreateOrder(t, userId, planType) ==
  LET args == [NoArgs EXCEPT !.userId = userId, !.planType = planType]
      fail(inner) == Return(t, "createOrder", args, NoDoc, createOrderThrow(inner))
  IN
  /\ CanStart(t)
  /\ nops' = nops + 1
  /\ IF keyId = Undefined \/ keySecret = Undefined
       THEN fail(<<"Razorpay credentials are missing">>)
     ELSE IF planType \notin PlanTypes THEN fail(<<"Invalid plan type">>)
     ELSE IF userId \notin Users THEN fail(<<"User not found">>)
     ELSE IF isPremium[userId] THEN fail(<<"User is already premium">>)
     ELSE Begin(t, "createOrder", "co_gateway", args, NoDoc)
  /\ UNCHANGED <<payments, isPremium>>

\* messages of the errors razorpay.orders.create rejects with
GatewayMessages == {"gateway error"}

CreateOrderGateway_swallow(t) ==
  /\ task[t].pc = "co_gateway"
  /\ \/ \E id \in OrderIds :
          /\ task' = [task EXCEPT ![t].pc = "co_save", ![t].gwOrder = id]
          /\ out' = NoOut
     \/ Finish(t, NoDoc, createOrderThrow(<<"Unknown error">>))
  /\ UNCHANGED <<payments, isPremium, nops>>

\* this.razorpay.orders.create: the gateway mints an order or fails
CreateOrderGateway(t) ==
  /\ task[t].pc = "co_gateway"
  /\ \/ \E id \in OrderIds :
          /\ task' = [task EXCEPT ![t].pc = "co_save", ![t].gwOrder = id]
          /\ out' = NoOut
     \/ \E m \in GatewayMessages : Finish(t, NoDoc, createOrderThrow(<<m>>))
  /\ UNCHANGED <<payments, isPremium, nops>>

CreateOrderSave_noUnique(t) ==
  LET a == task[t].args
      new == Stamp(preSave(NewPayment(Len(payments) + 1, a.userId,
                                      task[t].gwOrder, a.planType)),
                   Len(payments) + 1)
  IN
  /\ task[t].pc = "co_save"
  /\ payments' = Append(payments, new)
  /\ Finish(t, new, Ok(201, [NoData EXCEPT !.success = TRUE,
            !.orderId = task[t].gwOrder, !.amount = new.amount,
            !.currency = new.currency, !.planType = a.planType]))
  /\ UNCHANGED <<isPremium, nops>>

\* payment.save() of the new record, under the unique index on razorpayOrderId;
\* the save happens in a later millisecond than the saves before it
CreateOrderSave(t) ==
  LET a == task[t].args
      new == Stamp(preSave(NewPayment(Len(payments) + 1, a.userId,
                                      task[t].gwOrder, a.planType)),
                   Len(payments) + 1)
  IN
  /\ task[t].pc = "co_save"
  /\ IF \E i \in DOMAIN payments : payments[i].razorpayOrderId = task[t].gwOrder
       THEN /\ Finish(t, NoDoc, createOrderThrow(<<"E11000 duplicate key error">>))
            /\ UNCHANGED payments
       ELSE /\ payments' = Append(payments, new)
            /\ Finish(t, new, Ok(201, [NoData EXCEPT !.success = TRUE,
                      !.orderId = task[t].gwOrder, !.amount = new.amount,
                      !.currency = new.currency, !.planType = a.planType]))
  /\ UNCHANGED <<isPremium, nops>>

(* ---------------------------- verifyPayment ---------------------------- *)
verifyPaymentError_notFound404(msg) ==
  IF Includes(msg, "Payment record not found") THEN Err(404, msg)
  ELSE IF Includes(msg, "Payment verification failed") THEN Err(400, msg)
  ELSE Err(HttpNext, msg)

\* BillingController.verifyPayment: every failure of the service carries the
\* prefix 'Payment verification failed' and is answered 400
verifyPaymentError(msg) ==
  IF Includes(msg, "Payment verification failed")
       \/ Includes(msg, "Payment record not found")
    THEN Err(400, msg)
    ELSE Err(HttpNext, msg)

verifyPaymentThrow(inner) ==
  verifyPaymentError(Wrap("Payment verification failed", inner))

VerifyPayment_pendingOnly(t, orderId, paymentId, signature) ==
  LET args == [NoArgs EXCEPT !.orderId = orderId, !.paymentId = paymentId,
                             !.signature = signature]
      payment == findOne(orderId, NoArg, "pending")
  IN
  /\ CanStart(t)
  /\ nops' = nops + 1
  /\ IF payment = NoDoc
       THEN Return(t, "verifyPayment", args, findOne(orderId, NoArg, NoArg),
                   verifyPaymentThrow(<<"Payment record not found">>))
     ELSE IF ~verifySignature(orderId, paymentId, signature)
       THEN Begin(t, "verifyPayment", "vp_markFailed", args, payment)
     ELSE Begin(t, "verifyPayment", "vp_markCompleted", args, payment)
  /\ UNCHANGED <<payments, isPremium>>

\* Payment.findOne({razorpayOrderId}) and the signature check
VerifyPayment(t, orderId, paymentId, signature) ==
  LET args == [NoArgs EXCEPT !.orderId = orderId, !.paymentId = paymentId,
                             !.signature = signature]
      payment == findOne(orderId, NoArg, NoArg)
  IN
  /\ CanStart(t)
  /\ nops' = nops + 1
  /\ IF payment = NoDoc
       THEN Return(t, "verifyPayment", args, NoDoc,
                   verifyPaymentThrow(<<"Payment record not found">>))
     ELSE IF ~verifySignature(orderId, paymentId, signature)
       THEN Begin(t, "verifyPayment", "vp_markFailed", args, payment)
     ELSE Begin(t, "verifyPayment", "vp_markCompleted", args, payment)
  /\ UNCHANGED <<payments, isPremium>>

\* payment.markFailed('Invalid payment signature'), then the throw
VerifyPaymentMarkFailed(t) ==
  LET mem == markFailed(task[t].doc, "Invalid payment signature") IN
  /\ task[t].pc = "vp_markFailed"
  /\ payments' = SavePayment(t, mem)
  /\ Finish(t, preSave(mem), verifyPaymentThrow(<<"Payment verification failed">>))
  /\ UNCHANGED <<isPremium, nops>>

\* payment.markCompleted(razorpay_payment_id, razorpay_signature)
VerifyPaymentMarkCompleted(t) ==
  LET mem == markCompleted(task[t].doc, task[t].args.paymentId,
                           task[t].args.signature) IN
  /\ task[t].pc = "vp_markCompleted"
  /\ payments' = SavePayment(t, mem)
  /\ Goto(t, "vp_findUser", preSave(mem))
  /\ UNCHANGED <<isPremium, nops>>

verifyPaymentResult(t) ==
  Ok(200, [NoData EXCEPT !.success = TRUE,
             !.paymentId = task[t].args.paymentId,
             !.orderId = task[t].args.orderId,
             !.planType = task[t].doc.planType,
             !.amount = task[t].doc.amount,
             !.currency = task[t].doc.currency])

\* User.findById(payment.userId)
VerifyPaymentFindUser(t) ==
  /\ task[t].pc = "vp_findUser"
  /\ IF task[t].doc.userId \in Users
       THEN /\ task' = [task EXCEPT ![t].pc = "vp_saveUser",
                          ![t].userWas = isPremium[task[t].doc.userId]]
            /\ out' = NoOut
       ELSE Finish(t, task[t].doc, verifyPaymentResult(t))
  /\ UNCHANGED <<payments, isPremium, nops>>

SaveUser_toggle(t) ==
  [isPremium EXCEPT ![task[t].doc.userId] = ~isPremium[task[t].doc.userId]]
\* user.isPremium = true; user.save() writes the flag when it was not set
SaveUser(t) ==
  IF task[t].userWas
    THEN isPremium
    ELSE [isPremium EXCEPT ![task[t].doc.userId] = TRUE]

VerifyPaymentSaveUser(t) ==
  /\ task[t].pc = "vp_saveUser"
  /\ isPremium' = SaveUser(t)
  /\ Finish(t, task[t].doc, verifyPaymentResult(t))
  /\ UNCHANGED <<payments, nops>>

(* ------------------------- handlePaymentFailure ------------------------ *)
handlePaymentFailureError_generic(msg) == Err(HttpNext, msg)
\* BillingController.handlePaymentFailure
handlePaymentFailureError(msg) ==
  IF Includes(msg, "Payment record not found")
    THEN Err(404, <<"Payment record not found">>)
    ELSE Err(HttpNext, msg)

\* Payment.findOne({razorpayOrderId: orderId})
HandlePaymentFailure(t, orderId, reason) ==
  LET args == [NoArgs EXCEPT !.orderId = orderId, !.reason = reason]
      payment == findOne(orderId, NoArg, NoArg)
  IN
  /\ CanStart(t)
  /\ nops' = nops + 1
  /\ IF payment = NoDoc
       THEN Return(t, "handlePaymentFailure", args, NoDoc,
              handlePaymentFailureError(
                Wrap("Failed to handle payment failure",
                     <<"Payment record not found">>)))
       ELSE Begin(t, "handlePaymentFailure", "pf_markFailed", args, payment)
  /\ UNCHANGED <<payments, isPremium>>

\* payment.markFailed(reason); return payment
HandlePaymentFailureMarkFailed_statusOnly(t) ==
  LET mem == [task[t].doc EXCEPT !.status = "failed"] IN
  /\ task[t].pc = "pf_markFailed"
  /\ payments' = SavePayment(t, mem)
  /\ Finish(t, preSave(mem), Ok(200, [NoData EXCEPT !.success = TRUE,
                                        !.orderId = task[t].args.orderId]))
  /\ UNCHANGED <<isPremium, nops>>
HandlePaymentFailureMarkFailed(t) ==
  LET mem == markFailed(task[t].doc, task[t].args.reason) IN
  /\ task[t].pc = "pf_markFailed"
  /\ payments' = SavePayment(t, mem)
  /\ Finish(t, preSave(mem), Ok(200, [NoData EXCEPT !.success = TRUE,
                                        !.orderId = task[t].args.orderId]))
  /\ UNCHANGED <<isPremium, nops>>

(* ----------------------------- cancelPayment --------------------------- *)
\* BillingController.cancelPayment
cancelPaymentError(msg) ==
  IF Includes(msg, "Pending payment not found")
    THEN Err(404, <<"Pending payment not found">>)
    ELSE Err(HttpNext, msg)

CancelPayment_anyOwner(t, orderId, userId) ==
  LET args == [NoArgs EXCEPT !.orderId = orderId, !.userId = userId]
      payment == findOne(orderId, NoArg, "pending")
  IN
  /\ CanStart(t)
  /\ nops' = nops + 1
  /\ IF payment = NoDoc
       THEN Return(t, "cancelPayment", args, NoDoc,
              cancelPaymentError(Wrap("Failed to cancel payment",
                                      <<"Pending payment not found">>)))
       ELSE Begin(t, "cancelPayment", "cp_markCancelled", args, payment)
  /\ UNCHANGED <<payments, isPremium>>

\* Payment.findOne({razorpayOrderId, userId, status: 'pending'})
CancelPayment(t, orderId, userId) ==
  LET args == [NoArgs EXCEPT !.orderId = orderId, !.userId = userId]
      payment == findOne(orderId, userId, "pending")
  IN
  /\ CanStart(t)
  /\ nops' = nops + 1
  /\ IF payment = NoDoc
       THEN Return(t, "cancelPayment", args, NoDoc,
              cancelPaymentError(Wrap("Failed to cancel payment",
                                      <<"Pending payment not found">>)))
       ELSE Begin(t, "cancelPayment", "cp_markCancelled", args, payment)
  /\ UNCHANGED <<payments, isPremium>>

\* payment.markCancelled(); return payment
CancelPaymentMarkCancelled_replace(t) ==
  LET mem == markCancelled(task[t].doc) IN
  /\ task[t].pc = "cp_markCancelled"
  /\ payments' = [payments EXCEPT ![task[t].loaded._id] = mem]
  /\ Finish(t, preSave(mem), Ok(200, [NoData EXCEPT !.success = TRUE,
                                        !.orderId = task[t].args.orderId]))
  /\ UNCHANGED <<isPremium, nops>>
CancelPaymentMarkCancelled(t) ==
  LET mem == markCancelled(task[t].doc) IN
  /\ task[t].pc = "cp_markCancelled"
  /\ payments' = SavePayment(t, mem)
  /\ Finish(t, preSave(mem), Ok(200, [NoData EXCEPT !.success = TRUE,
                                        !.orderId = task[t].args.orderId]))
  /\ UNCHANGED <<isPremium, nops>>

(* ----------------------------- handleWebhook --------------------------- *)
\* BillingController.handleWebhook answers 200 with the service's result
WebhookAck(data) == Ok(200, data)

\* catch of PaymentService.handleWebhook, then catch of the controller:
\* status 200 with { success: false, error: error.message }
WebhookError(inner) == Err(200, Wrap("Webhook processing failed", inner))

\* { processed: true, paymentId / orderId }
Processed(args) ==
  WebhookAck([NoData EXCEPT !.processed = TRUE, !.paymentId = args.paymentId,
                !.orderId = args.orderId])

WebhookCaptured_anyStatus(t, orderId, paymentId) ==
  LET args == [NoArgs EXCEPT !.event = "payment.captured",
                             !.orderId = orderId, !.paymentId = paymentId]
      payment == findOne(orderId, NoArg, NoArg)
  IN
  /\ CanStart(t)
  /\ nops' = nops + 1
  /\ IF payment # NoDoc
       THEN Begin(t, "handleWebhook", "wc_markCompleted", args, payment)
       ELSE Return(t, "handleWebhook", args, payment, Processed(args))
  /\ UNCHANGED <<payments, isPremium>>

\* case 'payment.captured': handlePaymentCaptured, findOne and the pending test
WebhookCaptured(t, orderId, paymentId) ==
  LET args == [NoArgs EXCEPT !.event = "payment.captured",
                             !.orderId = orderId, !.paymentId = paymentId]
      payment == findOne(orderId, NoArg, NoArg)
  IN
  /\ CanStart(t)
  /\ nops' = nops + 1
  /\ IF payment # NoDoc /\ payment.status = "pending"
       THEN Begin(t, "handleWebhook", "wc_markCompleted", args, payment)
       ELSE Return(t, "handleWebhook", args, payment, Processed(args))
  /\ UNCHANGED <<payments, isPremium>>

\* payment.markCompleted(paymentEntity.id, null)
WebhookCapturedMarkCompleted(t) ==
  LET mem == markCompleted(task[t].doc, task[t].args.paymentId, Null) IN
  /\ task[t].pc = "wc_markCompleted"
  /\ payments' = SavePayment(t, mem)
  /\ Goto(t, "wc_findUser", preSave(mem))
  /\ UNCHANGED <<isPremium, nops>>

WebhookCapturedFindUser_skip(t) ==
  /\ task[t].pc = "wc_findUser"
  /\ Finish(t, task[t].doc, Processed(task[t].args))
  /\ UNCHANGED <<payments, isPremium, nops>>

\* User.findById(payment.userId); if (user && !user.isPremium)
WebhookCapturedFindUser(t) ==
  /\ task[t].pc = "wc_findUser"
  /\ IF task[t].doc.userId \in Users /\ ~isPremium[task[t].doc.userId]
       THEN /\ task' = [task EXCEPT ![t].pc = "wc_saveUser", ![t].userWas = FALSE]
            /\ out' = NoOut
       ELSE Finish(t, task[t].doc, Processed(task[t].args))
  /\ UNCHANGED <<payments, isPremium, nops>>

\* user.isPremium = true; user.save()
WebhookCapturedSaveUser_everyUser(t) ==
  /\ task[t].pc = "wc_saveUser"
  /\ isPremium' = [u \in Users |-> TRUE]
  /\ Finish(t, task[t].doc, Processed(task[t].args))
  /\ UNCHANGED <<payments, nops>>

\* user.save() of the user found by payment.userId
WebhookCapturedSaveUser(t) ==
  /\ task[t].pc = "wc_saveUser"
  /\ isPremium' = SaveUser(t)
  /\ Finish(t, task[t].doc, Processed(task[t].args))
  /\ UNCHANGED <<payments, nops>>

\* case 'payment.failed': handlePaymentFailedWebhook
WebhookFailed(t, orderId, paymentId, errorDescription) ==
  LET args == [NoArgs EXCEPT !.event = "payment.failed", !.orderId = orderId,
                             !.paymentId = paymentId,
                             !.reason = errorDescription]
      payment == findOne(orderId, NoArg, NoArg)
  IN
  /\ CanStart(t)
  /\ nops' = nops + 1
  /\ IF payment # NoDoc /\ payment.status = "pending"
       THEN Begin(t, "handleWebhook", "wf_markFailed", args, payment)
       ELSE Return(t, "handleWebhook", args, payment, Processed(args))
  /\ UNCHANGED <<payments, isPremium>>

FailureReason_default(errorDescription) == "Payment failed"
\* paymentEntity.error_description || 'Payment failed'
FailureReason(errorDescription) ==
  IF errorDescription \in {Undefined, Null, ""}
    THEN "Payment failed"
    ELSE errorDescription

\* payment.markFailed(paymentEntity.error_description || 'Payment failed')
WebhookFailedMarkFailed(t) ==
  LET mem == markFailed(task[t].doc, FailureReason(task[t].args.reason)) IN
  /\ task[t].pc = "wf_markFailed"
  /\ payments' = SavePayment(t, mem)
  /\ Finish(t, preSave(mem), Processed(task[t].args))
  /\ UNCHANGED <<isPremium, nops>>

WebhookOrderPaid_missingIsError(t, orderId) ==
  LET args == [NoArgs EXCEPT !.event = "order.paid", !.orderId = orderId]
      payment == findOne(orderId, NoArg, NoArg)
  IN
  /\ CanStart(t)
  /\ nops' = nops + 1
  /\ IF payment # NoDoc
       THEN Begin(t, "handleWebhook", "wo_save", args, payment)
       ELSE Return(t, "handleWebhook", args, payment,
                   WebhookError(<<"Payment record not found">>))
  /\ UNCHANGED <<payments, isPremium>>

\* case 'order.paid': handleOrderPaid
WebhookOrderPaid(t, orderId) ==
  LET args == [NoArgs EXCEPT !.event = "order.paid", !.orderId = orderId]
      payment == findOne(orderId, NoArg, NoArg)
  IN
  /\ CanStart(t)
  /\ nops' = nops + 1
  /\ IF payment # NoDoc
       THEN Begin(t, "handleWebhook", "wo_save", args, payment)
       ELSE Return(t, "handleWebhook", args, payment, Processed(args))
  /\ UNCHANGED <<payments, isPremium>>

WebhookOrderPaidSave_append(t) ==
  LET mem == [task[t].doc EXCEPT
                !.webhookEventId = @ \o "," \o task[t].args.orderId] IN
  /\ task[t].pc = "wo_save"
  /\ payments' = SavePayment(t, mem)
  /\ Finish(t, preSave(mem), Processed(task[t].args))
  /\ UNCHANGED <<isPremium, nops>>

\* payment.webhookEventId = orderEntity.id; payment.save()
WebhookOrderPaidSave(t) ==
  LET mem == [task[t].doc EXCEPT !.webhookEventId = task[t].args.orderId] IN
  /\ task[t].pc = "wo_save"
  /\ payments' = SavePayment(t, mem)
  /\ Finish(t, preSave(mem), Processed(task[t].args))
  /\ UNCHANGED <<isPremium, nops>>

WebhookOther_processed(t, eventType) ==
  LET args == [NoArgs EXCEPT !.event = eventType] IN
  /\ CanStart(t)
  /\ nops' = nops + 1
  /\ Return(t, "handleWebhook", args, NoDoc, Processed(args))
  /\ UNCHANGED <<payments, isPremium>>

\* default: unhandled event type
WebhookOther(t, eventType) ==
  LET args == [NoArgs EXCEPT !.event = eventType] IN
  /\ CanStart(t)
  /\ nops' = nops + 1
  /\ Return(t, "handleWebhook", args, NoDoc,
            WebhookAck([NoData EXCEPT !.event = eventType]))
  /\ UNCHANGED <<payments, isPremium>>

(* --------------------------- specification ----------------------------- *)
\* u0 is a user id without a user document
UserIds == Users \cup {"u0"}
PlanInputs == PlanTypes \cup {"invalid_plan"}
Reasons == {"card declined"}
ErrorDescriptions == {Undefined, "bank error"}
OtherEvents == {"refund.created"}

Next ==
  \/ \E t \in Tasks, u \in UserIds, pl \in PlanInputs : CreateOrder(t, u, pl)
  \/ \E t \in Tasks : CreateOrderGateway(t)
  \/ \E t \in Tasks : CreateOrderSave(t)
  \/ \E t \in Tasks, o \in OrderIds, p \in PaymentIds :
       \E sig \in ClientSignatures(o, p) : VerifyPayment(t, o, p, sig)
  \/ \E t \in Tasks : VerifyPaymentMarkFailed(t)
  \/ \E t \in Tasks : VerifyPaymentMarkCompleted(t)
  \/ \E t \in Tasks : VerifyPaymentFindUser(t)
  \/ \E t \in Tasks : VerifyPaymentSaveUser(t)
  \/ \E t \in Tasks, o \in OrderIds, r \in Reasons : HandlePaymentFailure(t, o, r)
  \/ \E t \in Tasks : HandlePaymentFailureMarkFailed(t)
  \/ \E t \in Tasks, o \in OrderIds, u \in Users : CancelPayment(t, o, u)
  \/ \E t \in Tasks : CancelPaymentMarkCancelled(t)
  \/ \E t \in Tasks, o \in OrderIds, p \in PaymentIds : WebhookCaptured(t, o, p)
  \/ \E t \in Tasks : WebhookCapturedMarkCompleted(t)
  \/ \E t \in Tasks : WebhookCapturedFindUser(t)
  \/ \E t \in Tasks : WebhookCapturedSaveUser(t)
  \/ \E t \in Tasks, o \in OrderIds, p \in PaymentIds, d \in ErrorDescriptions :
       WebhookFailed(t, o, p, d)
  \/ \E t \in Tasks : WebhookFailedMarkFailed(t)
  \/ \E t \in Tasks, o \in OrderIds : WebhookOrderPaid(t, o)
  \/ \E t \in Tasks : WebhookOrderPaidSave(t)
  \/ \E t \in Tasks, e \in OtherEvents : WebhookOther(t, e)

Spec == Init /\ [][Next]_vars

(* ------------------------------ scheduling ----------------------------- *)
\* the traffic around a payment: orders are created, and their payment is
\* reported by the client (verifyPayment) and by the gateway
\* (payment.captured)
NextPayment ==
  \/ \E t \in Tasks, u \in Users : CreateOrder(t, u, "premium_monthly")
  \/ \E t \in Tasks : CreateOrderGateway(t)
  \/ \E t \in Tasks : CreateOrderSave(t)
  \/ \E t \in Tasks, o \in OrderIds, p \in PaymentIds :
       \E sig \in ClientSignatures(o, p) : VerifyPayment(t, o, p, sig)
  \/ \E t \in Tasks : VerifyPaymentMarkFailed(t)
  \/ \E t \in Tasks : VerifyPaymentMarkCompleted(t)
  \/ \E t \in Tasks : VerifyPaymentFindUser(t)
  \/ \E t \in Tasks : VerifyPaymentSaveUser(t)
  \/ \E t \in Tasks, o \in OrderIds, p \in PaymentIds : WebhookCaptured(t, o, p)
  \/ \E t \in Tasks : WebhookCapturedMarkCompleted(t)
  \/ \E t \in Tasks : WebhookCapturedFindUser(t)
  \/ \E t \in Tasks : WebhookCapturedSaveUser(t)

\* the continuation of the request task t runs: the promise it awaits settles
\* and the event loop resumes the handler
Step(t) ==
  \/ CreateOrderGateway(t) \/ CreateOrderSave(t)
  \/ VerifyPaymentMarkFailed(t) \/ VerifyPaymentMarkCompleted(t)
  \/ VerifyPaymentFindUser(t) \/ VerifyPaymentSaveUser(t)
  \/ WebhookCapturedMarkCompleted(t) \/ WebhookCapturedFindUser(t)
  \/ WebhookCapturedSaveUser(t)

\* every awaited call settles: as long as a request is in flight some request
\* goes on, and since the requests of a behaviour are finitely many each of
\* them runs to its end
FairSpec == Init /\ [][NextPayment]_vars /\ WF_vars(\E t \in Tasks : Step(t))

\* the continuation of task t after a database call: the driver settles the
\* promise and the handler resumes
DatabaseStep(t) ==
  \/ CreateOrderSave(t)
  \/ VerifyPaymentMarkFailed(t) \/ VerifyPaymentMarkCompleted(t)
  \/ VerifyPaymentFindUser(t) \/ VerifyPaymentSaveUser(t)
  \/ HandlePaymentFailureMarkFailed(t)
  \/ CancelPaymentMarkCancelled(t)
  \/ WebhookCapturedMarkCompleted(t) \/ WebhookCapturedFindUser(t)
  \/ WebhookCapturedSaveUser(t)
  \/ WebhookFailedMarkFailed(t)
  \/ WebhookOrderPaidSave(t)

\* every database call settles. razorpay.orders.create is awaited as it is:
\* the client is constructed with key_id and key_secret only and the await
\* is raced against no timer, so the handler resumes when, and only if, the
\* gateway answers; CreateOrderGateway is under no fairness condition
SpecGateway == Init /\ [][Next]_vars /\ \A t \in Tasks : WF_vars(DatabaseStep(t))

(* ------------------------- the requesting user ------------------------- *)
\* POST /failure behind authenticate: the controller reads orderId and reason
\* from the body and calls the service with these two; req.user, kept here in
\* args.userId, is passed nowhere and the lookup is by order id alone
HandlePaymentFailureBy(t, userId, orderId, reason) ==
  LET args == [NoArgs EXCEPT !.userId = userId, !.orderId = orderId,
                             !.reason = reason]
      payment == findOne(orderId, NoArg, NoArg)
  IN
  /\ CanStart(t)
  /\ nops' = nops + 1
  /\ IF payment = NoDoc
       THEN Return(t, "handlePaymentFailure", args, NoDoc,
              handlePaymentFailureError(
                Wrap("Failed to handle payment failure",
                     <<"Payment record not found">>)))
       ELSE Begin(t, "handlePaymentFailure", "pf_markFailed", args, payment)
  /\ UNCHANGED <<payments, isPremium>>

\* orders are created, and users report failures and cancel
NextRequester ==
  \/ \E t \in Tasks, u \in Users : CreateOrder(t, u, "premium_monthly")
  \/ \E t \in Tasks : CreateOrderGateway(t)
  \/ \E t \in Tasks : CreateOrderSave(t)
  \/ \E t \in Tasks, u \in Users, o \in OrderIds, r \in Reasons :
       HandlePaymentFailureBy(t, u, o, r)
  \/ \E t \in Tasks : HandlePaymentFailureMarkFailed(t)
  \/ \E t \in Tasks, o \in OrderIds, u \in Users : CancelPayment(t, o, u)
  \/ \E t \in Tasks : CancelPaymentMarkCancelled(t)

SpecRequester == Init /\ [][NextRequester]_vars

(* ------------------------- verifySignature alone ----------------------- *)
\* the secrets an instance may have resolved, the ids a caller may pass (an
\* absent id is concatenated as 'undefined') and the signatures: the digest
\* of any of these under any secret, nothing, or the empty string
Secrets == {keySecret, OtherSecret, Undefined}
IdInputs(ids) == ids \cup {Undefined}
SignatureInputs ==
  { Hmac(k, Body(o, p)) :
      k \in Secrets, o \in IdInputs(OrderIds), p \in IdInputs(PaymentIds) }
    \cup {Undefined, ""}

\* one call of verifySignature; the value it returns is data.success
VerifySignature(t, secret, orderId, paymentId, signature) ==
  /\ task[t].pc = "idle"
  /\ Return(t, "verifySignature",
            [secret |-> secret, orderId |-> orderId, paymentId |-> paymentId,
             signature |-> signature],
            NoDoc,
            Ok(0, [NoData EXCEPT !.success =
                     verifySignatureWith(secret, orderId, paymentId, signature)]))
  /\ UNCHANGED <<payments, isPremium, nops>>

NextVerifySignature ==
  \E t \in Tasks, k \in Secrets, o \in IdInputs(OrderIds),
     p \in IdInputs(PaymentIds), sig \in SignatureInputs :
    VerifySignature(t, k, o, p, sig)

SpecVerifySignature == Init /\ [][NextVerifySignature]_vars

(* ------------------- an instance without credentials ------------------- *)
\* validate(schema) answering a request the schema rejects
ValidationFailed == Err(400, <<"Validation failed">>)

\* POST /upgrade on an instance whose environment sets no RAZORPAY_KEY_ID or
\* RAZORPAY_KEY_SECRET: validate(createUpgradeOrderSchema) admits the two
\* plan types of the enum, then createOrder throws at its first check
CreateOrderUnconfigured(t, userId, planType) ==
  LET args == [NoArgs EXCEPT !.userId = userId, !.planType = planType]
  IN
  /\ CanStart(t)
  /\ nops' = nops + 1
  /\ IF planType \notin {"premium_monthly", "premium_yearly"}
       THEN Return(t, "createOrder", args, NoDoc, ValidationFailed)
       ELSE Return(t, "createOrder", args, NoDoc,
                   createOrderThrow(<<"Razorpay credentials are missing">>))
  /\ UNCHANGED <<payments, isPremium>>

\* upgrade and verify requests reach instances with and without credentials
\* that share the database
NextUpgrade ==
  \/ \E t \in Tasks, u \in UserIds, pl \in PlanInputs : CreateOrder(t, u, pl)
  \/ \E t \in Tasks, u \in UserIds, pl \in PlanInputs :
       CreateOrderUnconfigured(t, u, pl)
  \/ \E t \in Tasks : CreateOrderGateway(t)
  \/ \E t \in Tasks : CreateOrderSave(t)
  \/ \E t \in Tasks, o \in OrderIds, p \in PaymentIds :
       \E sig \in ClientSignatures(o, p) : VerifyPayment(t, o, p, sig)
  \/ \E t \in Tasks : VerifyPaymentMarkFailed(t)
  \/ \E t \in Tasks : VerifyPaymentMarkCompleted(t)
  \/ \E t \in Tasks : VerifyPaymentFindUser(t)
  \/ \E t \in Tasks : VerifyPaymentSaveUser(t)

SpecUpgrade == Init /\ [][NextUpgrade]_vars

(* --------------------------- history and stats ------------------------- *)
\* payment.save() of a new record in the millisecond of the save before it:
\* the two records carry the same createdAt
CreateOrderSaveSameMs(t) ==
  LET a == task[t].args
      new == Stamp(preSave(NewPayment(Len(payments) + 1, a.userId,
                                      task[t].gwOrder, a.planType)),
                   payments[Len(payments)].createdAt)
  IN
  /\ task[t].pc = "co_save"
  /\ payments # <<>>
  /\ IF \E i \in DOMAIN payments : payments[i].razorpayOrderId = task[t].gwOrder
       THEN /\ Finish(t, NoDoc, createOrderThrow(<<"E11000 duplicate key error">>))
            /\ UNCHANGED payments
       ELSE /\ payments' = Append(payments, new)
            /\ Finish(t, new, Ok(201, [NoData EXCEPT !.success = TRUE,
                      !.orderId = task[t].gwOrder, !.amount = new.amount,
                      !.currency = new.currency, !.planType = a.planType]))
  /\ UNCHANGED <<isPremium, nops>>

Query_openOnly(userId, status) ==
  { i \in DOMAIN payments :
      /\ (userId # Undefined => payments[i].userId = userId)
      /\ (status # Undefined => payments[i].status = status)
      /\ payments[i].status \in {"pending", "completed"} }
\* the query getPaymentHistory builds: a filter is part of it when given
Query(userId, status) ==
  { i \in DOMAIN payments :
      /\ (userId # Undefined => payments[i].userId = userId)
      /\ (status # Undefined => payments[i].status = status) }

\* .sort({ createdAt: -1 }): the matching records, newest first; the order
\* among records with equal createdAt is whatever the server yields
Sorted(ids) ==
  { ord \in [1..Cardinality(ids) -> ids] :
      /\ \A a, b \in DOMAIN ord : a # b => ord[a] # ord[b]
      /\ \A a, b \in DOMAIN ord :
           a < b => payments[ord[a]].createdAt >= payments[ord[b]].createdAt }
\* .skip(n)
Skip(seq, n) == IF n >= Len(seq) THEN <<>> ELSE SubSeq(seq, n + 1, Len(seq))
\* .limit(n)
Limit(seq, n) == IF n >= Len(seq) THEN seq ELSE SubSeq(seq, 1, n)
\* Math.ceil(total / limit)
Ceil(total, limit) == (total + limit - 1) \div limit

\* what getPaymentHistory returns when the sorted query yields ord
HistoryPage(ord, page, limit) ==
  [payments |->
     [k \in DOMAIN Limit(Skip(ord, (page - 1) * limit), limit) |->
        payments[Limit(Skip(ord, (page - 1) * limit), limit)[k]]],
   pagination |->
     [currentPage |-> page, totalPages |-> Ceil(Len(ord), limit),
      totalItems |-> Len(ord), itemsPerPage |-> limit]]

\* PaymentService.getPaymentHistory: Payment.find(query).sort().skip().limit()
\* and Payment.countDocuments(query), both on the collection as it is; a
\* read writes nothing and is not counted among the MaxOps requests
GetPaymentHistory(t, userId, status, page, limit) ==
  LET args == [userId |-> userId, status |-> status, page |-> page,
               limit |-> limit]
  IN
  /\ task[t].pc = "idle"
  /\ \E ord \in Sorted(Query(userId, status)) :
       Return(t, "getPaymentHistory", args, NoDoc,
              Ok(200, HistoryPage(ord, page, limit)))
  /\ UNCHANGED <<payments, isPremium, nops>>

\* the figures getPaymentStats returns when the aggregation yields no group
NoStats ==
  [totalPayments |-> 0, totalAmount |-> 0, completedPayments |-> 0,
   completedAmount |-> 0, failedPayments |-> 0, pendingPayments |-> 0]

GroupStep_failedOrCancelled(acc, doc) ==
  [totalPayments |-> acc.totalPayments + 1,
   totalAmount |-> acc.totalAmount + doc.amount,
   completedPayments |->
     acc.completedPayments + (IF doc.status = "completed" THEN 1 ELSE 0),
   completedAmount |->
     acc.completedAmount + (IF doc.status = "completed" THEN doc.amount ELSE 0),
   failedPayments |->
     acc.failedPayments + (IF doc.status \in {"failed", "cancelled"} THEN 1 ELSE 0),
   pendingPayments |->
     acc.pendingPayments + (IF doc.status = "pending" THEN 1 ELSE 0)]
\* $group: the accumulators take one more document
GroupStep(acc, doc) ==
  [totalPayments |-> acc.totalPayments + 1,
   totalAmount |-> acc.totalAmount + doc.amount,
   completedPayments |->
     acc.completedPayments + (IF doc.status = "completed" THEN 1 ELSE 0),
   completedAmount |->
     acc.completedAmount + (IF doc.status = "completed" THEN doc.amount ELSE 0),
   failedPayments |->
     acc.failedPayments + (IF doc.status = "failed" THEN 1 ELSE 0),
   pendingPayments |->
     acc.pendingPayments + (IF doc.status = "pending" THEN 1 ELSE 0)]

RECURSIVE Group(_, _)
Group(acc, docs) ==
  IF docs = <<>> THEN acc ELSE Group(GroupStep(acc, Head(docs)), Tail(docs))

\* paymentSchema.statics.getStats: $match, then $group with _id null; the
\* result has one group when a document matched and none otherwise
getStats(userId) ==
  LET matched == SelectSeq(payments,
                   LAMBDA d : userId \in {Null, Undefined} \/ d.userId = userId)
  IN IF matched = <<>> THEN <<>> ELSE <<Group(NoStats, matched)>>

\* PaymentService.getPaymentStats: stats[0] || { all figures 0 }
GetPaymentStats(t, userId) ==
  LET args == [userId |-> userId]
      stats == getStats(userId)
  IN
  /\ task[t].pc = "idle"
  /\ Return(t, "getPaymentStats", args, NoDoc,
            Ok(200, IF stats = <<>> THEN NoStats ELSE stats[1]))
  /\ UNCHANGED <<payments, isPremium, nops>>

\* orders are created, paid and refused while the history and the
\* statistics of all users are read between any two of their steps
NextObserve ==
  \/ \E t \in Tasks, u \in Users : CreateOrder(t, u, "premium_monthly")
  \/ \E t \in Tasks : CreateOrderGateway(t)
  \/ \E t \in Tasks : CreateOrderSave(t)
  \/ \E t \in Tasks, o \in OrderIds, p \in PaymentIds :
       \E sig \in ClientSignatures(o, p) : VerifyPayment(t, o, p, sig)
  \/ \E t \in Tasks : VerifyPaymentMarkFailed(t)
  \/ \E t \in Tasks : VerifyPaymentMarkCompleted(t)
  \/ \E t \in Tasks : VerifyPaymentFindUser(t)
  \/ \E t \in Tasks : VerifyPaymentSaveUser(t)
  \/ \E t \in Tasks, o \in OrderIds, r \in Reasons : HandlePaymentFailure(t, o, r)
  \/ \E t \in Tasks : HandlePaymentFailureMarkFailed(t)
  \/ \E t \in Tasks : GetPaymentHistory(t, Undefined, Undefined, 1, 2)
  \/ \E t \in Tasks : GetPaymentStats(t, Null)

SpecObserve == Init /\ [][NextObserve]_vars

\* an option of getPaymentHistory that takes a date or a number is <<>> when
\* it is not given and <<value>> when it is; if (x) holds for a string or a
\* Date that is given and for a number that is given and not 0
NoOptions ==
  [status |-> Undefined, planType |-> Undefined, startDate |-> <<>>,
   endDate |-> <<>>, minAmount |-> <<>>, maxAmount |-> <<>>]
GivenNumber(x) == x # <<>> /\ x[1] # 0

\* the query getPaymentHistory builds from all its options
FilterQuery(userId, o) ==
  { i \in DOMAIN payments :
      /\ (userId # Undefined => payments[i].userId = userId)
      /\ (o.status # Undefined => payments[i].status = o.status)
      /\ (o.planType # Undefined => payments[i].planType = o.planType)
      /\ (o.startDate # <<>> => payments[i].createdAt >= o.startDate[1])
      /\ (o.endDate # <<>> => payments[i].createdAt <= o.endDate[1])
      /\ ( (GivenNumber(o.minAmount) \/ GivenNumber(o.maxAmount))
           => /\ (GivenNumber(o.minAmount) => payments[i].amount >= o.minAmount[1])
              /\ (GivenNumber(o.maxAmount) => payments[i].amount <= o.maxAmount[1]) ) }

\* PaymentService.getPaymentHistory called with any of its options
GetPaymentHistoryWith(t, userId, o, page, limit) ==
  LET args == [userId |-> userId, options |-> o, page |-> page, limit |-> limit]
  IN
  /\ task[t].pc = "idle"
  /\ \E ord \in Sorted(FilterQuery(userId, o)) :
       Return(t, "getPaymentHistory", args, NoDoc,
              Ok(200, HistoryPage(ord, page, limit)))
  /\ UNCHANGED <<payments, isPremium, nops>>

\* the options the history is asked with: none, one status, one plan, the
\* first millisecond, an amount floor, an amount ceiling, and the ceiling 0
HistoryOptions ==
  { NoOptions,
    [NoOptions EXCEPT !.status = "pending"],
    [NoOptions EXCEPT !.planType = "premium_yearly"],
    [NoOptions EXCEPT !.startDate = <<1>>, !.endDate = <<1>>],
    [NoOptions EXCEPT !.minAmount = <<100000>>],
    [NoOptions EXCEPT !.maxAmount = <<99900>>],
    [NoOptions EXCEPT !.maxAmount = <<0>>] }

\* orders of both plans are created, also two in one millisecond, and
\* cancelled, and the history is read with every kind of filter, one record
\* per page
NextFilters ==
  \/ \E t \in Tasks, u \in Users, pl \in PlanTypes : CreateOrder(t, u, pl)
  \/ \E t \in Tasks : CreateOrderGateway(t)
  \/ \E t \in Tasks : CreateOrderSave(t)
  \/ \E t \in Tasks : CreateOrderSaveSameMs(t)
  \/ \E t \in Tasks, o \in OrderIds, u \in Users : CancelPayment(t, o, u)
  \/ \E t \in Tasks : CancelPaymentMarkCancelled(t)
  \/ \E t \in Tasks, u \in {"u1", Undefined}, o \in HistoryOptions,
        page \in 1..2 :
       GetPaymentHistoryWith(t, u, o, page, 1)

SpecFilters == Init /\ [][NextFilters]_vars

\* orders are created, also two in one millisecond, and cancelled, and the
\* history of one user or of all users, optionally of the pending orders
\* only, is read page by page
NextHistory ==
  \/ \E t \in Tasks, u \in Users, pl \in PlanTypes : CreateOrder(t, u, pl)
  \/ \E t \in Tasks : CreateOrderGateway(t)
  \/ \E t \in Tasks : CreateOrderSave(t)
  \/ \E t \in Tasks : CreateOrderSaveSameMs(t)
  \/ \E t \in Tasks, o \in OrderIds, u \in Users : CancelPayment(t, o, u)
  \/ \E t \in Tasks : CancelPaymentMarkCancelled(t)
  \/ \E t \in Tasks, u \in {"u1", Undefined}, st \in {Undefined, "pending"},
        page \in 1..3, limit \in 1..2 :
       GetPaymentHistory(t, u, st, page, limit)

SpecHistory == Init /\ [][NextHistory]_vars

\* orders are created and paid, refused or cancelled, and the statistics of
\* one user or of all users are read
NextStats ==
  \/ \E t \in Tasks, u \in Users, pl \in PlanTypes : CreateOrder(t, u, pl)
  \/ \E t \in Tasks : CreateOrderGateway(t)
  \/ \E t \in Tasks : CreateOrderSave(t)
  \/ \E t \in Tasks, o \in OrderIds, p \in PaymentIds :
       \E sig \in ClientSignatures(o, p) : VerifyPayment(t, o, p, sig)
  \/ \E t \in Tasks : VerifyPaymentMarkFailed(t)
  \/ \E t \in Tasks : VerifyPaymentMarkCompleted(t)
  \/ \E t \in Tasks : VerifyPaymentFindUser(t)
  \/ \E t \in Tasks : VerifyPaymentSaveUser(t)
  \/ \E t \in Tasks, o \in OrderIds, u \in Users : CancelPayment(t, o, u)
  \/ \E t \in Tasks : CancelPaymentMarkCancelled(t)
  \/ \E t \in Tasks, u \in Users \cup {Null} : GetPaymentStats(t, u)

SpecStats == Init /\ [][NextStats]_vars

(* ------------------------------ routing -------------------------------- *)
\* the role of every user document: a member and an admin
role == [u \in Users |-> IF u = "u2" THEN "admin" ELSE "member"]

\* the routes of the billing router
Endpoints ==
  {"webhook", "plans", "status", "history", "upgrade", "verify", "failure",
   "cancel", "admin/stats", "admin/payments"}
AdminEndpoints == {"admin/stats", "admin/payments"}
PostEndpoints == {"webhook", "upgrade", "verify", "failure", "cancel"}

\* the access token issued to a user id, and the Authorization headers a
\* request may carry: none, a token that does not verify, a token of a user
\* id with or without user document
AccessToken(userId) == "jwt(" \o userId \o ")"
Tokens == {Undefined, "invalid"} \cup { AccessToken(u) : u \in UserIds }
\* JWTUtils.verifyAccessToken: the user id in the token, if it verifies
verifyAccessToken(token) ==
  IF \E u \in UserIds : token = AccessToken(u)
    THEN CHOOSE u \in UserIds : token = AccessToken(u)
    ELSE Undefined

\* a middleware calls next(), with req.user as given
NextWith(user) == [kind |-> "next", user |-> user]

\* authenticate: 401 without header, with a token that does not verify, or
\* without user document; else req.user is the user
authenticate(token) ==
  IF token = Undefined THEN Err(401, <<"Access token is required">>)
  ELSE IF verifyAccessToken(token) = Undefined
    THEN Err(401, <<"Invalid or expired access token">>)
  ELSE IF verifyAccessToken(token) \notin Users
    THEN Err(401, <<"User not found">>)
  ELSE NextWith(verifyAccessToken(token))

authorize_anyRole(roles, user) == NextWith(user)
\* authorize(...roles): 401 without req.user, 403 when the role is not listed
authorize(roles, user) ==
  IF user = Undefined THEN Err(401, <<"Authentication required">>)
  ELSE IF role[user] \notin roles THEN Err(403, <<"Insufficient permissions">>)
  ELSE NextWith(user)

\* the answer of a rate limiter whose window is used up
TooManyRequests == Err(429, <<"Too many requests">>)

\* the way of a request to a billing route through app.use(limiter),
\* express.json() and the middlewares of the router, to the answer of the
\* first that refuses it; on the admin routes the controller follows, on the
\* other routes the chain ends where it calls the controller. arrival says
\* what the application meets: a used-up window of the limiter, a POST body
\* that does not parse, or neither
Route(t, endpoint, token, arrival) ==
  LET args == [NoArgs EXCEPT !.endpoint = endpoint, !.token = token,
                             !.arrival = arrival]
      answer(by, result) == Return(t, by, args, NoDoc, result)
      authn == authenticate(token)
      authz == authorize({"admin"}, authn.user)
  IN
  /\ task[t].pc = "idle"
  /\ arrival = "unparsable" => endpoint \in PostEndpoints
  /\ IF arrival = "limited" THEN answer("limiter", TooManyRequests)
     ELSE IF arrival = "unparsable"
       THEN answer("express.json", Err(HttpNext, <<"entity.parse.failed">>))
     ELSE IF endpoint = "webhook" THEN answer("next", NoResult)
     ELSE IF authn.kind = "error" THEN answer("authenticate", authn)
     ELSE IF endpoint \notin AdminEndpoints THEN answer("next", NoResult)
     ELSE IF authz.kind = "error" THEN answer("authorize", authz)
     ELSE IF endpoint = "admin/stats"
       THEN answer("getPaymentStats",
                   Ok(200, IF getStats(Undefined) = <<>> THEN NoStats
                           ELSE getStats(Undefined)[1]))
     ELSE \E ord \in Sorted(Query(Undefined, Undefined)) :
            answer("getAllPayments", Ok(200, HistoryPage(ord, 1, 10)))
  /\ UNCHANGED <<payments, isPremium, nops>>

\* orders are created while requests of every kind arrive at the router
NextRouter ==
  \/ \E t \in Tasks, u \in Users : CreateOrder(t, u, "premium_monthly")
  \/ \E t \in Tasks : CreateOrderGateway(t)
  \/ \E t \in Tasks : CreateOrderSave(t)
  \/ \E t \in Tasks, e \in Endpoints, tok \in Tokens,
        a \in {"next", "limited", "unparsable"} : Route(t, e, tok, a)

SpecRouter == Init /\ [][NextRouter]_vars

(* ------------------- webhook deliveries that fail ---------------------- *)
\* payload.payment.entity / payload.order.entity of an envelope whose payload
\* lacks the entity: the property read throws a TypeError inside the try
WebhookMalformed(t, eventType) ==
  LET args == [NoArgs EXCEPT !.event = eventType] IN
  /\ CanStart(t)
  /\ nops' = nops + 1
  /\ Return(t, "handleWebhook", args, NoDoc,
            WebhookError(<<"Cannot read properties of undefined">>))
  /\ UNCHANGED <<payments, isPremium>>

\* messages of the errors a database call rejects with
PersistenceMessages == {"persistence error"}

\* Payment.findOne of a handler rejects
WebhookLookupFails(t, eventType, orderId) ==
  LET args == [NoArgs EXCEPT !.event = eventType, !.orderId = orderId] IN
  /\ CanStart(t)
  /\ nops' = nops + 1
  /\ \E m \in PersistenceMessages :
       Return(t, "handleWebhook", args, NoDoc, WebhookError(<<m>>))
  /\ UNCHANGED <<payments, isPremium>>

\* a later await of a handler (payment.save, User.findById, user.save)
\* rejects: the handler rethrows; what the awaits before it wrote stays
WebhookStepFails(t) ==
  /\ task[t].op = "handleWebhook"
  /\ task[t].pc # "idle"
  /\ \E m \in PersistenceMessages :
       Finish(t, task[t].doc, WebhookError(<<m>>))
  /\ UNCHANGED <<payments, isPremium, nops>>

NextWebhookFailures ==
  \/ Next
  \/ \E t \in Tasks, e \in {"payment.captured", "payment.failed", "order.paid"} :
       WebhookMalformed(t, e)
  \/ \E t \in Tasks, e \in {"payment.captured", "payment.failed", "order.paid"},
        o \in OrderIds : WebhookLookupFails(t, e, o)
  \/ \E t \in Tasks : WebhookStepFails(t)

SpecWebhookFailures == Init /\ [][NextWebhookFailures]_vars

(* ------------------------- vocabulary of the claims --------------------- *)
\* task t takes the step: it starts a request, or goes on with the one it runs
Starts(t) ==
  /\ task[t].pc = "idle"
  /\ nops' = nops + 1
  /\ (task'[t].pc # "idle" \/ out'.t = t)
Continues(t) == task[t].pc # "idle" /\ task'[t] # task[t]
\* the request t starts in this step
StartedOp(t) == IF task'[t].pc # "idle" THEN task'[t].op ELSE out'.op
StartedArgs(t) == IF task'[t].pc # "idle" THEN task'[t].args ELSE out'.args
\* t sends its response in this step
Responds(t) == out'.t = t /\ task'[t].pc = "idle" /\ (Starts(t) \/ Continues(t))

\* the signature is the HMAC of 'orderId|paymentId' under the shared secret
CorrectSignature(args) ==
  args.signature = "hmac(key_secret," \o args.orderId \o "|" \o args.paymentId \o ")"
\* x is a task state or a response
IsValidVerify(x) == x.op = "verifyPayment" /\ CorrectSignature(x.args)
IsInvalidVerify(x) == x.op = "verifyPayment" /\ ~CorrectSignature(x.args)
IsEvent(x, eventType) == x.op = "handleWebhook" /\ x.args.event = eventType
IsCompleter(x) == IsValidVerify(x) \/ IsEvent(x, "payment.captured")
IsFailer(x) ==
  \/ x.op \in {"cancelPayment", "handlePaymentFailure"}
  \/ IsEvent(x, "payment.failed")

\* the step of t is a save() of its payment document
SavePcs ==
  {"vp_markFailed", "vp_markCompleted", "pf_markFailed", "cp_markCancelled",
   "wc_markCompleted", "wf_markFailed", "wo_save"}
Saves(t) == Continues(t) /\ task[t].pc \in SavePcs
\* the save of t sends a status in its update
SendsStatus(t) ==
  /\ Saves(t)
  /\ (IF task'[t].pc = "idle" THEN out'.doc ELSE task'[t].doc).status
       # task[t].loaded.status

Owner(i) == payments[i].userId

(* -------------------------------- C1 ----------------------------------- *)
\* C1: once the status of a record is completed, failed or cancelled, no
\* later request changes it: a request that found the record in a terminal
\* status leaves the stored status as it is.
C1_TerminalIsSticky ==
  [][\A t \in Tasks :
       (Continues(t) /\ task[t].loaded.status \in Terminal)
         => payments'[task[t].loaded._id].status
              = payments[task[t].loaded._id].status]_vars

(* -------------------------------- C2 ----------------------------------- *)
\* two requests in flight on the same record, both having loaded it pending
InFlightOnPending(t, s) ==
  /\ t # s
  /\ task[t].pc # "idle" /\ task[s].pc # "idle"
  /\ task[t].loaded._id # 0
  /\ task[t].loaded._id = task[s].loaded._id
  /\ task[t].loaded.status = "pending" /\ task[s].loaded.status = "pending"

\* C2: when a verifyPayment with a correct signature and a payment.captured
\* webhook run concurrently on a pending order, a status write of either is
\* the pending -> completed transition: it finds the stored record pending,
\* so that only one of the two writes the status.
C2_OneTransitionVerifyVsCaptured ==
  [][\A t, s \in Tasks :
       ( /\ InFlightOnPending(t, s)
         /\ \/ IsValidVerify(task[t]) /\ IsEvent(task[s], "payment.captured")
            \/ IsEvent(task[t], "payment.captured") /\ IsValidVerify(task[s])
         /\ SendsStatus(t) )
       => payments[task[t].loaded._id].status = "pending"]_vars

(* -------------------------------- C3 ----------------------------------- *)
\* C3: when a cancelPayment, handlePaymentFailure or payment.failed webhook
\* races with a verifyPayment with a correct signature or a payment.captured
\* webhook on a pending order, the pending check and the status write of each
\* are one atomic step: whoever writes the status finds the record pending.
C3_OneTransitionConflicting ==
  [][\A t, s \in Tasks :
       ( /\ InFlightOnPending(t, s)
         /\ \/ IsFailer(task[t]) /\ IsCompleter(task[s])
            \/ IsCompleter(task[t]) /\ IsFailer(task[s])
         /\ SendsStatus(t) )
       => payments[task[t].loaded._id].status = "pending"]_vars

(* -------------------------------- C4 ----------------------------------- *)
\* C4: a user whose premium flag is true owns a completed PaymentOrder.
C4_PremiumHasCompletedOrder ==
  \A u \in Users :
    isPremium[u] =>
      \E i \in DOMAIN payments :
        Owner(i) = u /\ payments[i].status = "completed"

(* -------------------------------- C5 ----------------------------------- *)
\* C5: a record becomes completed, and a premium flag becomes true, only in
\* a step of a verifyPayment whose signature is the HMAC of
\* 'orderId|paymentId' or of the handling of a payment.captured event, on the
\* order the request names; a new record is never completed.
C5_CompletionNeedsProof ==
  [][
     /\ \A i \in DOMAIN payments :
          (payments'[i].status = "completed" /\ payments[i].status # "completed")
            => \E t \in Tasks :
                 /\ Continues(t) /\ IsCompleter(task[t])
                 /\ task[t].args.orderId = payments[i].razorpayOrderId
     /\ \A i \in DOMAIN payments' \ DOMAIN payments :
          payments'[i].status # "completed"
     /\ \A u \in Users :
          (isPremium'[u] /\ ~isPremium[u])
            => \E t \in Tasks :
                 /\ Continues(t) /\ IsCompleter(task[t])
                 /\ \E j \in DOMAIN payments :
                      /\ Owner(j) = u
                      /\ task[t].args.orderId = payments[j].razorpayOrderId
  ]_vars

\* a request that proves the payment has completed its order and made the
\* owner premium
C5_Witness ==
  /\ IsCompleter(out) /\ out.loaded.status = "pending"
  /\ payments[out.loaded._id].status = "completed"
  /\ isPremium[out.loaded.userId]

(* -------------------------------- C6 ----------------------------------- *)
\* the success result of verifyPayment for the record with _id i
VerifySuccess(args, i) ==
  Ok(200, [NoData EXCEPT !.success = TRUE, !.paymentId = args.paymentId,
             !.orderId = args.orderId, !.planType = payments[i].planType,
             !.amount = payments[i].amount, !.currency = payments[i].currency])

\* C6: verifyPayment(O1, P1, sig) with the correct signature on a record it
\* found pending goes the completion path; its save leaves the record
\* completed with payment id P1 and the signature stored; when it returns,
\* the owner's premium flag is true and the result is success with paymentId
\* P1, orderId O1 and the planType, amount and currency of the record.
C6_ValidVerifyCompletes ==
  /\ [][\A t \in Tasks :
          ( /\ Continues(t) /\ task[t].pc = "vp_markCompleted"
            /\ CorrectSignature(task[t].args)
            /\ task[t].loaded.status = "pending" )
          => /\ payments'[task[t].loaded._id].status = "completed"
             /\ payments'[task[t].loaded._id].razorpayPaymentId
                  = task[t].args.paymentId
             /\ payments'[task[t].loaded._id].razorpaySignature
                  = task[t].args.signature]_vars
  /\ [](\A t \in Tasks :
          (IsValidVerify(task[t]) /\ task[t].loaded.status = "pending")
            => task[t].pc \in {"vp_markCompleted", "vp_findUser", "vp_saveUser"})
  /\ []((IsValidVerify(out) /\ out.loaded.status = "pending")
          => /\ out.result = VerifySuccess(out.args, out.loaded._id)
             /\ out.args.orderId = payments[out.loaded._id].razorpayOrderId
             /\ isPremium[Owner(out.loaded._id)])

\* a verifyPayment with the correct signature has returned for an order it
\* found pending
C6_Witness ==
  /\ IsValidVerify(out) /\ out.loaded.status = "pending"
  /\ out.result.kind = "ok"
  /\ payments[out.loaded._id].status = "completed"

(* -------------------------------- C7 ----------------------------------- *)
\* verifyPayment with the arguments that completed the record it finds
IsRepeatedVerify(x) ==
  /\ IsValidVerify(x)
  /\ x.loaded.status = "completed"
  /\ x.loaded.razorpayPaymentId = x.args.paymentId
  /\ x.loaded.razorpaySignature = x.args.signature

\* C7: a verifyPayment repeated with the same valid arguments on the order
\* the first call completed changes no record in any of its steps, leaves
\* the premium flag the first call set as it is, and returns success again.
C7_RepeatedVerifyIsNoOp ==
  /\ [][\A t \in Tasks :
          (Continues(t) /\ IsRepeatedVerify(task[t]))
            => /\ payments' = payments
               /\ (isPremium[task[t].loaded.userId] => isPremium' = isPremium)]_vars
  /\ [](\A t \in Tasks :
          IsRepeatedVerify(task[t])
            => task[t].pc \in {"vp_markCompleted", "vp_findUser", "vp_saveUser"})
  /\ [](IsRepeatedVerify(out)
          => /\ out.result = VerifySuccess(out.args, out.loaded._id)
             /\ isPremium[Owner(out.loaded._id)])

\* the repeated call has returned and the record is as the first call left it
C7_Witness ==
  /\ IsRepeatedVerify(out) /\ out.result.kind = "ok"
  /\ payments[out.loaded._id] = out.loaded
  /\ isPremium[out.loaded.userId]

(* -------------------------------- C8 ----------------------------------- *)
\* the error verifyPayment reports for a signature that does not verify
VerificationFailed ==
  Err(400, <<"Payment verification failed", "Payment verification failed">>)

\* C8: verifyPayment with a signature that does not match, on an order it
\* found pending, saves status failed with reason 'Invalid payment
\* signature', reports VerificationFailed, leaves the stored payment id and
\* signature as they are (none on a record still pending) and changes no
\* premium flag.
C8_InvalidSignatureFailsOrder ==
  /\ [][\A t \in Tasks :
          ( /\ Continues(t) /\ IsInvalidVerify(task[t])
            /\ task[t].loaded.status = "pending" )
          => /\ payments'[task[t].loaded._id].status = "failed"
             /\ payments'[task[t].loaded._id].failureReason
                  = "Invalid payment signature"
             /\ payments'[task[t].loaded._id].razorpayPaymentId
                  = payments[task[t].loaded._id].razorpayPaymentId
             /\ payments'[task[t].loaded._id].razorpaySignature
                  = payments[task[t].loaded._id].razorpaySignature
             /\ (payments[task[t].loaded._id].status = "pending"
                   => /\ payments'[task[t].loaded._id].razorpayPaymentId = Undefined
                      /\ payments'[task[t].loaded._id].razorpaySignature = Undefined)
             /\ isPremium' = isPremium
             /\ Responds(t)
             /\ out'.result = VerificationFailed]_vars
  /\ [][\A t \in Tasks :
          ( /\ Starts(t) /\ StartedOp(t) = "verifyPayment"
            /\ ~CorrectSignature(StartedArgs(t))
            /\ findOne(StartedArgs(t).orderId, NoArg, NoArg).status = "pending" )
          => /\ ~Responds(t)
             /\ UNCHANGED <<payments, isPremium>>]_vars

\* a verifyPayment with a wrong signature has failed the order it found pending
C8_Witness ==
  /\ IsInvalidVerify(out) /\ out.loaded.status = "pending"
  /\ out.result = VerificationFailed
  /\ payments[out.loaded._id].status = "failed"
  /\ payments[out.loaded._id].razorpayPaymentId = Undefined

(* -------------------------------- C9 ----------------------------------- *)
\* C9: verifyPayment for an order id that has no record ends at once with
\* 'Payment record not found', answered 400, whatever the signature, and
\* changes no record and no premium flag.
C9_UnknownOrderIsRejected ==
  [][\A t \in Tasks :
       ( /\ Starts(t) /\ StartedOp(t) = "verifyPayment"
         /\ \A i \in DOMAIN payments :
              payments[i].razorpayOrderId # StartedArgs(t).orderId )
       => /\ Responds(t)
          /\ out'.result.kind = "error"
          /\ out'.result.http = 400
          /\ Includes(out'.result.msg, "Payment record not found")
          /\ UNCHANGED <<payments, isPremium>>]_vars

\* a verifyPayment with the correct signature was rejected for an order id
\* without record while another order has a record
C9_Witness ==
  /\ IsValidVerify(out) /\ out.loaded = NoDoc
  /\ out.result.http = 400
  /\ Includes(out.result.msg, "Payment record not found")
  /\ payments # <<>>

(* -------------------------------- C10 ---------------------------------- *)
AlreadyPremium == Err(409, <<"User is already premium">>)
InvalidPlan == Err(400, <<"Invalid plan type">>)

\* createOrder(userId, planType) is started by t for a premium user
StartsCreateOrderForPremium(t) ==
  /\ Starts(t) /\ StartedOp(t) = "createOrder"
  /\ StartedArgs(t).userId \in Users
  /\ isPremium[StartedArgs(t).userId]

\* C10 as stated: createOrder for a user whose premium flag is true always
\* fails with AlreadyPremium and creates no record.
C10_PremiumAlwaysAlreadyPremium ==
  [][\A t \in Tasks :
       StartsCreateOrderForPremium(t)
         => /\ Responds(t)
            /\ out'.result = AlreadyPremium
            /\ UNCHANGED <<payments, isPremium>>]_vars

\* C10 amended: createOrder for a user whose premium flag is true fails
\* before the gateway is called and creates no record; it fails with
\* AlreadyPremium when the plan id is in the catalog and with InvalidPlan
\* when it is not.
C10_PremiumCreatesNoOrder ==
  [][\A t \in Tasks :
       StartsCreateOrderForPremium(t)
         => /\ Responds(t)
            /\ out'.result = IF StartedArgs(t).planType \in {"premium_monthly", "premium_yearly"}
                               THEN AlreadyPremium
                               ELSE InvalidPlan
            /\ UNCHANGED <<payments, isPremium>>]_vars

\* a createOrder with a plan of the catalog was refused for a premium user
C10_Witness ==
  /\ out.op = "createOrder"
  /\ out.args.planType = "premium_monthly"
  /\ out.args.userId \in Users
  /\ isPremium[out.args.userId]
  /\ out.result = AlreadyPremium

(* -------------------------------- C11 ---------------------------------- *)
\* the catalog entry of a plan id, as the constructor lists it
CatalogAmount(planType) ==
  IF planType = "premium_monthly" THEN 99900 ELSE 999900
CatalogCurrency(planType) == "INR"

\* t runs createOrder and this step is the save that makes it succeed
CreateOrderSucceeds(t) ==
  /\ Continues(t) /\ task[t].op = "createOrder"
  /\ Responds(t) /\ out'.result.kind = "ok"

\* C11: a createOrder that succeeds was called with a plan id of the catalog
\* for an existing user; the record it adds is pending, owned by that user,
\* carries the amount and currency of the catalog entry, and its external
\* order id differs from the external order id of every record there was.
C11_CreatedOrderMatchesCatalog ==
  [][\A t \in Tasks :
       CreateOrderSucceeds(t)
         => /\ task[t].args.planType \in {"premium_monthly", "premium_yearly"}
            /\ task[t].args.userId \in Users
            /\ Len(payments') = Len(payments) + 1
            /\ payments'[Len(payments')].status = "pending"
            /\ payments'[Len(payments')].userId = task[t].args.userId
            /\ payments'[Len(payments')].amount
                 = CatalogAmount(task[t].args.planType)
            /\ payments'[Len(payments')].currency
                 = CatalogCurrency(task[t].args.planType)
            /\ \A i \in DOMAIN payments :
                 payments[i].razorpayOrderId
                   # payments'[Len(payments')].razorpayOrderId]_vars

\* a createOrder for the yearly plan has succeeded while another record exists
C11_Witness ==
  /\ out.op = "createOrder" /\ out.result.kind = "ok"
  /\ out.args.planType = "premium_yearly"
  /\ Len(payments) = 2
  /\ payments[2].razorpayOrderId = out.result.data.orderId
  /\ payments[2].amount = 999900
  /\ payments[1].razorpayOrderId # payments[2].razorpayOrderId

(* -------------------------------- C12 ---------------------------------- *)
\* C12: the save of a successful createOrder appends one pending record
\* whose external order id is the id the gateway returned to that call, and
\* touches nothing else; every other step of a createOrder, in particular
\* one that ends it with an error, changes no record and no premium flag;
\* an unknown plan is reported as 'Invalid plan type', a missing user as
\* 'User not found', and a rejected gateway call as an error whose message
\* contains the gateway's message.
C12_CreateOrderEffects ==
  /\ [][\A t \in Tasks :
          CreateOrderSucceeds(t)
            => /\ Len(payments') = Len(payments) + 1
               /\ \A i \in DOMAIN payments : payments'[i] = payments[i]
               /\ payments'[Len(payments')].status = "pending"
               /\ payments'[Len(payments')].razorpayOrderId = task[t].gwOrder
               /\ task[t].gwOrder \in {"O1", "O2"}
               /\ out'.result.data.orderId = task[t].gwOrder
               /\ isPremium' = isPremium]_vars
  /\ [][\A t \in Tasks :
          ( /\ \/ Starts(t) /\ StartedOp(t) = "createOrder"
               \/ Continues(t) /\ task[t].op = "createOrder"
            /\ ~CreateOrderSucceeds(t) )
          => /\ UNCHANGED <<payments, isPremium>>
             /\ (Responds(t) => out'.result.kind = "error")]_vars
  /\ [][\A t \in Tasks :
          (Starts(t) /\ StartedOp(t) = "createOrder")
            => /\ (StartedArgs(t).planType
                     \notin {"premium_monthly", "premium_yearly"})
                   => /\ Responds(t)
                      /\ Includes(out'.result.msg, "Invalid plan type")
               /\ ( /\ StartedArgs(t).planType
                         \in {"premium_monthly", "premium_yearly"}
                     /\ StartedArgs(t).userId \notin {"u1", "u2"} )
                   => /\ Responds(t)
                      /\ Includes(out'.result.msg, "User not found")]_vars
  /\ [][\A t \in Tasks :
          (Continues(t) /\ task[t].pc = "co_gateway" /\ Responds(t))
            => /\ out'.result.kind = "error"
               /\ Includes(out'.result.msg, "gateway error")]_vars

\* the gateway has rejected a createOrder while a record of an earlier call
\* exists
C12_Witness ==
  /\ out.op = "createOrder" /\ out.result.kind = "error"
  /\ Includes(out.result.msg, "gateway error")
  /\ Len(payments) = 1 /\ payments[1].status = "pending"

(* -------------------------------- C13 ---------------------------------- *)
PendingNotFound == Err(404, <<"Pending payment not found">>)

\* some record has this order id, this owner and status pending
HasPendingOrderOf(orderId, userId) ==
  \E i \in DOMAIN payments :
    /\ payments[i].razorpayOrderId = orderId
    /\ payments[i].userId = userId
    /\ payments[i].status = "pending"

\* C13: cancelPayment(orderId, userId) goes on to cancel only when it finds
\* a pending record with that order id owned by userId; otherwise (record
\* completed, failed or cancelled, owned by another user, or no record) it
\* ends at once with PendingNotFound, HTTP 404, and changes nothing.  A
\* record becomes cancelled only by the save of a cancelPayment that found
\* it pending and owned by its caller, and that save writes the status only.
C13_CancelOnlyOwnPending ==
  /\ [][\A t \in Tasks :
          (Starts(t) /\ StartedOp(t) = "cancelPayment")
            => /\ UNCHANGED <<payments, isPremium>>
               /\ IF HasPendingOrderOf(StartedArgs(t).orderId,
                                       StartedArgs(t).userId)
                    THEN ~Responds(t)
                    ELSE Responds(t) /\ out'.result = PendingNotFound]_vars
  /\ [][\A i \in DOMAIN payments :
          (payments'[i].status = "cancelled" /\ payments[i].status # "cancelled")
            => \E t \in Tasks :
                 /\ Continues(t) /\ task[t].op = "cancelPayment"
                 /\ task[t].loaded._id = i
                 /\ task[t].loaded.status = "pending"
                 /\ task[t].loaded.userId = task[t].args.userId
                 /\ task[t].loaded.razorpayOrderId = task[t].args.orderId]_vars
  /\ [][\A t \in Tasks :
          (Continues(t) /\ task[t].op = "cancelPayment")
            => /\ payments'
                   = [payments EXCEPT ![task[t].loaded._id].status = "cancelled"]
               /\ isPremium' = isPremium
               /\ Responds(t) /\ out'.result.kind = "ok"]_vars

\* a cancelPayment was refused for a pending order of another user
C13_Witness ==
  /\ out.op = "cancelPayment" /\ out.result = PendingNotFound
  /\ \E i \in DOMAIN payments :
       /\ payments[i].razorpayOrderId = out.args.orderId
       /\ payments[i].status = "pending"
       /\ payments[i].userId # out.args.userId

(* -------------------------------- C14 ---------------------------------- *)
\* the result is an acknowledgment with processed: true
ProcessedTrue(result) ==
  result.kind = "ok" /\ result.http = 200 /\ result.data.processed = TRUE

\* t starts the handling of an event of this type
StartsEvent(t, eventType) ==
  /\ Starts(t) /\ StartedOp(t) = "handleWebhook"
  /\ StartedArgs(t).event = eventType
\* the first record with the order id the event names, NoDoc if there is none
Matching(args) ==
  IF \A i \in DOMAIN payments : payments[i].razorpayOrderId # args.orderId
    THEN NoDoc
    ELSE payments[CHOOSE i \in DOMAIN payments :
                    /\ payments[i].razorpayOrderId = args.orderId
                    /\ \A j \in 1..(i - 1) :
                         payments[j].razorpayOrderId # args.orderId]

\* C14: a payment.captured event that finds its order pending goes on to
\* save it completed with the payment id of the event, and when it returns
\* the owner's premium flag is true; it touches no other record and no other
\* user.  An event that finds its order completed, failed or cancelled ends
\* at once and changes no record and no premium flag.  The result is
\* processed: true in both cases.
C14_CapturedCompletesPending ==
  /\ [][\A t \in Tasks :
          StartsEvent(t, "payment.captured")
            => /\ UNCHANGED <<payments, isPremium>>
               /\ Matching(StartedArgs(t)).status = "pending" => ~Responds(t)
               /\ Matching(StartedArgs(t)).status
                     \in {"completed", "failed", "cancelled"}
                   => Responds(t) /\ ProcessedTrue(out'.result)]_vars
  /\ [][\A t \in Tasks :
          (Continues(t) /\ IsEvent(task[t], "payment.captured"))
            => /\ task[t].loaded.status = "pending"
               /\ task[t].pc = "wc_markCompleted"
                   => /\ payments'[task[t].loaded._id].status = "completed"
                      /\ payments'[task[t].loaded._id].razorpayPaymentId
                           = task[t].args.paymentId
               /\ \A i \in DOMAIN payments :
                    i # task[t].loaded._id => payments'[i] = payments[i]
               /\ \A u \in Users :
                    u # task[t].loaded.userId => isPremium'[u] = isPremium[u]]_vars
  /\ [](IsEvent(out, "payment.captured")
          => /\ ProcessedTrue(out.result)
             /\ out.loaded.status = "pending" => isPremium[out.loaded.userId])

\* a payment.captured event has completed the order it found pending and
\* made the owner premium
C14_Witness ==
  /\ IsEvent(out, "payment.captured") /\ out.loaded.status = "pending"
  /\ ProcessedTrue(out.result)
  /\ payments[out.loaded._id].status = "completed"
  /\ payments[out.loaded._id].razorpayPaymentId = out.args.paymentId
  /\ isPremium[out.loaded.userId]

(* -------------------------------- C15 ---------------------------------- *)
\* C15: a payment.failed event that finds its order pending goes on to save
\* it failed, with the error description of the event as failure reason
\* ('Payment failed' when the event carries none); it writes nothing else
\* and no premium flag.  An event that finds its order completed, failed or
\* cancelled ends at once and changes nothing.
C15_FailedEventFailsPending ==
  /\ [][\A t \in Tasks :
          StartsEvent(t, "payment.failed")
            => /\ UNCHANGED <<payments, isPremium>>
               /\ Matching(StartedArgs(t)).status = "pending" => ~Responds(t)
               /\ Matching(StartedArgs(t)).status
                     \in {"completed", "failed", "cancelled"}
                   => Responds(t) /\ ProcessedTrue(out'.result)]_vars
  /\ [][\A t \in Tasks :
          (Continues(t) /\ IsEvent(task[t], "payment.failed"))
            => /\ task[t].loaded.status = "pending"
               /\ payments'
                   = [payments EXCEPT
                        ![task[t].loaded._id].status = "failed",
                        ![task[t].loaded._id].failureReason =
                           IF task[t].args.reason = "undefined"
                             THEN "Payment failed"
                             ELSE task[t].args.reason]
               /\ isPremium' = isPremium
               /\ Responds(t) /\ ProcessedTrue(out'.result)]_vars

\* a payment.failed event has failed the order it found pending, with the
\* description the gateway supplied
C15_Witness ==
  /\ IsEvent(out, "payment.failed") /\ out.loaded.status = "pending"
  /\ out.args.reason = "bank error"
  /\ payments[out.loaded._id].status = "failed"
  /\ payments[out.loaded._id].failureReason = "bank error"
  /\ ~isPremium[out.loaded.userId]

HandledEvents == {"payment.captured", "payment.failed", "order.paid"}

\* C17: handleWebhook for an event type other than payment.captured,
\* payment.failed and order.paid ends at once, without error, with
\* processed: false and the event type, and changes no record and no
\* premium flag.
C17_UnknownEventIsIgnored ==
  [][\A t \in Tasks :
       ( /\ Starts(t) /\ StartedOp(t) = "handleWebhook"
         /\ StartedArgs(t).event \notin HandledEvents )
       => /\ Responds(t)
          /\ out'.result.kind = "ok" /\ out'.result.http = 200
          /\ out'.result.data.processed = FALSE
          /\ out'.result.data.event = StartedArgs(t).event
          /\ UNCHANGED <<payments, isPremium>>]_vars

\* an event of an unhandled type was acknowledged while an order is pending
C17_Witness ==
  /\ out.op = "handleWebhook" /\ out.args.event = "refund.created"
  /\ out.result.kind = "ok" /\ out.result.data.processed = FALSE
  /\ \E i \in DOMAIN payments : payments[i].status = "pending"

(* -------------------------------- C18 ---------------------------------- *)
\* C18: a payment.captured, payment.failed or order.paid event whose order
\* id no record has ends at once with processed: true, without error, and
\* creates no record and changes no record and no premium flag.
C18_UnmatchedEventIsBenign ==
  [][\A t \in Tasks :
       ( /\ Starts(t) /\ StartedOp(t) = "handleWebhook"
         /\ StartedArgs(t).event \in HandledEvents
         /\ \A i \in DOMAIN payments :
              payments[i].razorpayOrderId # StartedArgs(t).orderId )
       => /\ Responds(t)
          /\ ProcessedTrue(out'.result)
          /\ UNCHANGED <<payments, isPremium>>]_vars

\* an order.paid event for an order id without record was acknowledged while
\* another order has a record
C18_Witness ==
  /\ IsEvent(out, "order.paid") /\ ProcessedTrue(out.result)
  /\ payments # <<>>
  /\ \A i \in DOMAIN payments : payments[i].razorpayOrderId # out.args.orderId

(* -------------------------------- C19 ---------------------------------- *)
\* a delivery that ends with an error has written nothing to its order
FailedDeliveryWritesNothing ==
  [][\A t \in Tasks :
       ( /\ Continues(t) /\ task[t].op = "handleWebhook"
         /\ Responds(t) /\ out'.result.kind = "error" )
       => /\ payments' = payments
          /\ task[t].doc = task[t].loaded]_vars

\* C19: every delivery handled by handleWebhook, also one whose payload
\* lacks the entity and one whose processing meets a persistence error, is
\* answered with a success-shaped acknowledgment and not with an error; a
\* delivery whose processing failed has written nothing to its order.
C19_WebhookNeverFails ==
  /\ [](out.op = "handleWebhook"
          => out.result.kind = "ok" /\ out.result.http = 200)
  /\ FailedDeliveryWritesNothing

(* -------------------------------- C20 ---------------------------------- *)
\* x is a delivery of one of the handled events
IsDelivery(x) == x.op = "handleWebhook" /\ x.args.event \in HandledEvents

\* the record one delivery of the event makes of the record d it finds
EventApplied(args, d) ==
  IF args.event = "payment.captured"
    THEN IF d.status = "pending"
           THEN [d EXCEPT !.status = "completed",
                          !.razorpayPaymentId = args.paymentId,
                          !.razorpaySignature = "null"]
           ELSE d
  ELSE IF args.event = "payment.failed"
    THEN IF d.status = "pending"
           THEN [d EXCEPT !.status = "failed",
                          !.failureReason =
                             IF args.reason = "undefined" THEN "Payment failed"
                                                          ELSE args.reason]
           ELSE d
  ELSE [d EXCEPT !.webhookEventId = args.orderId]

\* t starts a delivery of the event whose delivery has just been answered
Redelivers(t) ==
  /\ Starts(t) /\ StartedOp(t) = "handleWebhook"
  /\ IsDelivery(out) /\ StartedArgs(t) = out.args

\* C20: a delivery of an event that was delivered before leaves the records
\* and the premium flags as the first delivery made them, and every delivery
\* is answered processed: true.  In sequence: the delivery that follows a
\* finished delivery of the same event finds its record already as the event
\* makes it (a payment.captured or payment.failed event then ends at once)
\* and neither its lookup nor its save changes anything.  Concurrently: the
\* save of a delivery whose event has been applied to the record since the
\* delivery looked it up changes no record, and a delivery that finds the
\* owner premium leaves the flags as they are.
C20_RedeliveryChangesNothing ==
  /\ [](IsDelivery(out) => ProcessedTrue(out.result))
  /\ [][\A t \in Tasks :
          Redelivers(t)
            => /\ UNCHANGED <<payments, isPremium>>
               /\ Matching(out.args) # NoDoc
                   => Matching(out.args)
                        = EventApplied(out.args, Matching(out.args))
               /\ out.args.event \in {"payment.captured", "payment.failed"}
                   => Responds(t) /\ ProcessedTrue(out'.result)]_vars
  /\ [][\A t \in Tasks :
          ( /\ Continues(t) /\ IsDelivery(task[t])
            /\ payments[task[t].loaded._id]
                 = EventApplied(task[t].args, task[t].loaded) )
          => payments' = payments]_vars
  /\ [][\A t \in Tasks :
          ( /\ Continues(t) /\ IsDelivery(task[t])
            /\ isPremium[task[t].loaded.userId] )
          => isPremium' = isPremium]_vars

\* two concurrent deliveries of the same payment.captured event have both
\* saved the order they both found pending, and the record is as one
\* delivery makes it
C20_Witness ==
  \E t, s \in Tasks :
    /\ t # s
    /\ IsEvent(task[t], "payment.captured")
    /\ task[s].op = task[t].op /\ task[s].args = task[t].args
    /\ task[s].loaded = task[t].loaded /\ task[t].loaded.status = "pending"
    /\ task[t].pc = "wc_saveUser" /\ task[s].pc = "wc_saveUser"
    /\ payments[task[t].loaded._id] = EventApplied(task[t].args, task[t].loaded)

(* -------------------------------- C21 ---------------------------------- *)
\* positions a record can have in the collection
Positions == 1..Cardinality(OrderIds)

RecordNotFound == Err(404, <<"Payment record not found">>)

\* C22: handlePaymentFailure(orderId, reason) for an order id without
\* record ends at once with RecordNotFound, HTTP 404, and changes nothing;
\* on an order it found pending its save sets status failed and the failure
\* reason to the given reason, writes nothing else and no premium flag, and
\* the call returns the order so updated.
C22_FailureFailsPendingOrder ==
  /\ [][\A t \in Tasks :
          (Starts(t) /\ StartedOp(t) = "handlePaymentFailure")
            => /\ UNCHANGED <<payments, isPremium>>
               /\ IF \A i \in DOMAIN payments :
                       payments[i].razorpayOrderId # StartedArgs(t).orderId
                    THEN Responds(t) /\ out'.result = RecordNotFound
                    ELSE ~Responds(t)]_vars
  /\ [][\A t \in Tasks :
          ( /\ Continues(t) /\ task[t].op = "handlePaymentFailure"
            /\ task[t].loaded.status = "pending" )
          => /\ task[t].loaded.razorpayOrderId = task[t].args.orderId
             /\ payments'
                  = [payments EXCEPT
                       ![task[t].loaded._id].status = "failed",
                       ![task[t].loaded._id].failureReason = task[t].args.reason]
             /\ isPremium' = isPremium
             /\ Responds(t)
             /\ out'.result.kind = "ok" /\ out'.result.http = 200
             /\ out'.doc = [task[t].loaded EXCEPT
                              !.status = "failed",
                              !.failureReason = task[t].args.reason]]_vars

\* a handlePaymentFailure has failed the order it found pending, while
\* another order is untouched
C22_Witness ==
  /\ out.op = "handlePaymentFailure" /\ out.loaded.status = "pending"
  /\ out.result.kind = "ok"
  /\ payments[out.loaded._id].status = "failed"
  /\ payments[out.loaded._id].failureReason = out.args.reason
  /\ \E i \in DOMAIN payments : payments[i].status = "pending"

(* -------------------------------- C23 ---------------------------------- *)
IsHistory(x) == x.op = "getPaymentHistory"
PageIds(x) ==
  { x.result.data.payments[k]._id : k \in DOMAIN x.result.data.payments }
AtMost(a, b) == IF a <= b THEN a ELSE b
AtLeast(a, b) == IF a >= b THEN a ELSE b
\* the least number of pages of size s that hold n records
PagesFor(n, s) == CHOOSE k \in 0..n : k * s >= n /\ (k = 0 \/ (k - 1) * s < n)

\* C23: with N records matching the filters, getPaymentHistory for page p
\* and page size s returns min(s, max(0, N - (p-1)*s)) records, totalItems N,
\* totalPages ceil(N/s), currentPage p and itemsPerPage s; and the page
\* p + 1 asked for right after page p, with the same filters and size and no
\* step in between, holds no record that page p held (with these counts a
\* repeated record is a skipped one).
C23_HistoryPages ==
  /\ [](IsHistory(out) =>
          LET N == Cardinality(Query(out.args.userId, out.args.status))
              p == out.args.page
              s == out.args.limit
              d == out.result.data
          IN /\ out.result.kind = "ok"
             /\ Len(d.payments) = AtMost(s, AtLeast(0, N - (p - 1) * s))
             /\ \A k \in DOMAIN d.payments :
                  d.payments[k]._id \in Query(out.args.userId, out.args.status)
             /\ Cardinality(PageIds(out)) = Len(d.payments)
             /\ d.pagination = [currentPage |-> p, totalPages |-> PagesFor(N, s),
                                totalItems |-> N, itemsPerPage |-> s])
  /\ [][( /\ IsHistory(out) /\ IsHistory(out')
          /\ out'.args = [out.args EXCEPT !.page = @ + 1] )
        => PageIds(out) \cap PageIds(out') = {}]_vars

(* -------------------------------- C24 ---------------------------------- *)
IsStats(x) == x.op = "getPaymentStats"
\* the records of the user, or of all users when none is given
RecordsOf(userId) ==
  { i \in DOMAIN payments : userId = Null \/ payments[i].userId = userId }
RECURSIVE AmountOf(_)
AmountOf(ids) ==
  IF ids = {} THEN 0
  ELSE LET i == CHOOSE i \in ids : TRUE
       IN payments[i].amount + AmountOf(ids \ {i})
WithStatus(ids, status) == { i \in ids : payments[i].status = status }
\* what getPaymentStats would return in this state
StatsNow(userId) ==
  IF getStats(userId) = <<>> THEN NoStats ELSE getStats(userId)[1]

\* C24: getPaymentStats for a user, or for all users, returns the number
\* and the amount sum of those records, the number and the amount sum of the
\* completed ones and the numbers of the failed and of the pending ones, all
\* 0 when there is no such record; and in every state the completed, failed
\* and pending counts together do not exceed the total count, nor the
\* completed amount the total amount.
C24_StatsFigures ==
  /\ [](IsStats(out) =>
          LET ids == RecordsOf(out.args.userId)
          IN /\ out.result.kind = "ok"
             /\ out.result.data
                  = [totalPayments |-> Cardinality(ids),
                     totalAmount |-> AmountOf(ids),
                     completedPayments |-> Cardinality(WithStatus(ids, "completed")),
                     completedAmount |-> AmountOf(WithStatus(ids, "completed")),
                     failedPayments |-> Cardinality(WithStatus(ids, "failed")),
                     pendingPayments |-> Cardinality(WithStatus(ids, "pending"))]
             /\ (ids = {} => out.result.data = NoStats))
  /\ [](\A u \in Users \cup {Null} :
          /\ StatsNow(u).completedPayments + StatsNow(u).failedPayments
               + StatsNow(u).pendingPayments <= StatsNow(u).totalPayments
          /\ StatsNow(u).completedAmount <= StatsNow(u).totalAmount)

\* the statistics of one user were returned while that user has one order,
\* completed, and another user has an order too
C24_Witness ==
  /\ IsStats(out) /\ out.args.userId \in Users
  /\ out.result.data.totalPayments = 1
  /\ out.result.data.completedPayments = 1
  /\ out.result.data.completedAmount > 0
  /\ out.result.data.completedAmount = out.result.data.totalAmount
  /\ Len(payments) = 2

(* -------------------------------- C25 ---------------------------------- *)
FixedPaths == {"razorpayOrderId", "userId", "amount", "currency", "planType"}

\* C25: in every reachable state no two records have the same
\* razorpayOrderId, also when createOrder calls overlap or the gateway
\* returns an id that already has a record; and no step removes a record or
\* changes the razorpayOrderId, userId, amount, currency or planType of a
\* record that exists.
C25_OrderIdUniqueFieldsFixed ==
  /\ [](\A i, j \in DOMAIN payments :
          payments[i].razorpayOrderId = payments[j].razorpayOrderId => i = j)
  /\ [][/\ Len(payments') >= Len(payments)
        /\ \A i \in DOMAIN payments : \A f \in FixedPaths :
             payments'[i][f] = payments[i][f]]_vars

\* a createOrder whose gateway order id already had a record was refused
\* by the unique index, after another operation had cancelled that record
C25_Witness ==
  /\ out.op = "createOrder" /\ out.result.kind = "error"
  /\ Includes(out.result.msg, "E11000 duplicate key error")
  /\ Len(payments) = 1
  /\ payments[1].status = "cancelled"
  /\ payments[1].userId # out.args.userId
  /\ payments[1].amount = plans[payments[1].planType].amount

(* -------------------------------- C26 ---------------------------------- *)
MissingCredentials == "Razorpay credentials are missing"

\* C26: a createOrder request with an unknown plan is answered 400 and
\* creates no record; one that is refused at once is answered 409 only for a
\* premium user, and a premium user with a known plan is answered 409 unless
\* the credentials are missing; a createOrder that ends after the gateway
\* call is answered 201 with the requested planType, on the record too, or
\* ends with an error; and every error for a missing user, a gateway or save
\* failure or missing credentials is handed to next(error), never answered
\* 400 or 409.
C26_UpgradeHttpMapping ==
  /\ [][\A t \in Tasks :
          (Starts(t) /\ StartedOp(t) = "createOrder")
            => /\ (StartedArgs(t).planType
                     \notin {"premium_monthly", "premium_yearly"})
                   => /\ Responds(t)
                      /\ out'.result.kind = "error"
                      /\ out'.result.http = 400
                      /\ payments' = payments
               /\ ( /\ StartedArgs(t).planType
                         \in {"premium_monthly", "premium_yearly"}
                     /\ Responds(t) )
                   => /\ out'.result.kind = "error"
                      /\ payments' = payments
                      /\ \/ /\ out'.result.http = 409
                            /\ StartedArgs(t).userId \in Users
                            /\ isPremium[StartedArgs(t).userId]
                         \/ /\ out'.result.http = HttpNext
                            /\ Includes(out'.result.msg, "User not found")
                            /\ StartedArgs(t).userId \notin Users
                         \/ /\ out'.result.http = HttpNext
                            /\ Includes(out'.result.msg, MissingCredentials)
               /\ ( /\ StartedArgs(t).planType
                         \in {"premium_monthly", "premium_yearly"}
                     /\ StartedArgs(t).userId \in Users
                     /\ isPremium[StartedArgs(t).userId] )
                   => /\ Responds(t)
                      /\ \/ out'.result.http = 409
                         \/ Includes(out'.result.msg, MissingCredentials)]_vars
  /\ [][\A t \in Tasks :
          (Continues(t) /\ task[t].op = "createOrder" /\ Responds(t))
            => \/ /\ out'.result.kind = "ok"
                  /\ out'.result.http = 201
                  /\ out'.result.data.planType = task[t].args.planType
                  /\ Len(payments') = Len(payments) + 1
                  /\ payments'[Len(payments')].planType = task[t].args.planType
               \/ /\ out'.result.kind = "error"
                  /\ out'.result.http = HttpNext
                  /\ payments' = payments]_vars
  /\ HttpNext \notin {400, 409}

\* a premium user asked an instance without credentials for an upgrade and
\* the error went to next(error)
C26_Witness ==
  /\ out.op = "createOrder" /\ out.result.kind = "error"
  /\ out.result.http = HttpNext
  /\ Includes(out.result.msg, MissingCredentials)
  /\ out.args.planType = "premium_yearly"
  /\ out.args.userId \in Users /\ isPremium[out.args.userId]

(* -------------------------------- C27 ---------------------------------- *)
\* x is the answer to a request that came to the router
IsRouted(x) == x.args.endpoint \in Endpoints
\* the request carried the token of a user that exists
Authenticated(x) == \E u \in Users : x.args.token = AccessToken(u)
NonAdmin(x) ==
  \E u \in Users : x.args.token = AccessToken(u) /\ role[u] # "admin"
QueryControllers == {"getPaymentStats", "getAllPayments"}

\* C27 as stated: a request to an admin route with the token of a user who
\* is not admin is answered 403 and not by a controller that queries the
\* payments; a request to any route but the webhook without the token of a
\* user that exists is answered 401.
C27_RefusedAlways ==
  IsRouted(out) =>
    /\ (out.args.endpoint \in AdminEndpoints /\ NonAdmin(out))
         => out.result.http = 403 /\ out.op \notin QueryControllers
    /\ (out.args.endpoint # "webhook" /\ ~Authenticated(out))
         => out.result.http = 401

\* C27 amended: the payments are never queried for a user who is not admin,
\* and the answers are 403 and 401 for the requests that the limiter and
\* the body parser of the application let through to the router.
C27_RefusedWhenLetThrough ==
  IsRouted(out) =>
    /\ (out.args.endpoint \in AdminEndpoints /\ NonAdmin(out))
         => /\ out.op \notin QueryControllers
            /\ out.args.arrival = "next"
                 => out.result.http = 403 /\ out.op = "authorize"
    /\ ( /\ out.args.endpoint # "webhook" /\ ~Authenticated(out)
         /\ out.args.arrival = "next" )
         => out.result.http = 401 /\ out.op = "authenticate"
    /\ out.op \in QueryControllers
         => \E u \in Users :
              out.args.token = AccessToken(u) /\ role[u] = "admin"

\* a member was refused on the admin payments route while there is a
\* payment to list
C27_Witness ==
  /\ IsRouted(out) /\ out.args.endpoint = "admin/payments"
  /\ out.args.token = AccessToken("u1") /\ out.args.arrival = "next"
  /\ out.op = "authorize" /\ out.result.http = 403
  /\ Len(payments) > 0

(* -------------------------------- C28 ---------------------------------- *)
Absent == {Undefined, Null}

\* C28: in every reachable state a record has a razorpayPaymentId or a
\* razorpaySignature only if its status is completed, and a failureReason
\* only if its status is failed (so a pending or cancelled record has none
\* of the three and a completed record no failureReason).
C28_FieldsFollowStatus ==
  \A i \in DOMAIN payments :
    /\ ( \/ payments[i].razorpayPaymentId \notin Absent
         \/ payments[i].razorpaySignature \notin Absent )
         => payments[i].status = "completed"
    /\ payments[i].failureReason \notin Absent
         => payments[i].status = "failed"

(* -------------------------------- C29 ---------------------------------- *)
\* C29: a verifyPayment with a correct signature or a payment.captured
\* event that found the order pending never writes a razorpayPaymentId or a
\* razorpaySignature over one that another operation has stored since: the
\* stored signature is not replaced, in particular not by null, and the
\* stored payment id stays the one of the operation that completed the
\* order.
C29_NoFieldWrittenTwice ==
  [][\A t \in Tasks :
       ( /\ Continues(t) /\ IsCompleter(task[t])
         /\ task[t].loaded.status = "pending" )
       => \A i \in DOMAIN payments :
            /\ payments[i].razorpaySignature \notin Absent
                 => payments'[i].razorpaySignature = payments[i].razorpaySignature
            /\ payments[i].razorpayPaymentId \notin Absent
                 => payments'[i].razorpayPaymentId = payments[i].razorpayPaymentId]_vars

(* -------------------------------- C30 ---------------------------------- *)
\* C30: no step sets a premium flag from true to false, whatever operation
\* takes it; and a verifyPayment with a correct signature or a
\* payment.captured event that ends while the owner of its order is premium
\* already leaves the flag true and ends without error.
C30_PremiumIsMonotonic ==
  /\ [][\A u \in Users : isPremium[u] => isPremium'[u]]_vars
  /\ [][\A t \in Tasks :
          ( /\ Continues(t) /\ IsCompleter(task[t]) /\ Responds(t)
            /\ task[t].loaded.userId \in Users
            /\ isPremium[task[t].loaded.userId] )
          => /\ isPremium'[task[t].loaded.userId]
             /\ out'.result.kind = "ok"]_vars

\* an order of a premium user, completed before, was completed again with
\* another payment id, and every request has ended
C30_Witness ==
  /\ IsValidVerify(out) /\ out.result.kind = "ok"
  /\ out.loaded.status = "completed"
  /\ out.loaded.razorpayPaymentId # out.args.paymentId
  /\ payments[out.loaded._id].razorpayPaymentId = out.args.paymentId
  /\ \A t \in Tasks : task[t].pc = "idle"
  /\ isPremium[out.loaded.userId]

(* -------------------------------- C31 ---------------------------------- *)
\* C31: the step in which a cancelPayment succeeds sets the status of the
\* record it loaded to cancelled and changes nothing else: every other field
\* of that record, as stored at that moment, every other record, the number
\* of records and every premium flag stay as they are.
C31_CancelWritesStatusOnly ==
  [][\A t \in Tasks :
       ( /\ Continues(t) /\ task[t].op = "cancelPayment"
         /\ Responds(t) /\ out'.result.kind = "ok" )
       => /\ DOMAIN payments' = DOMAIN payments
          /\ payments'[task[t].loaded._id].status = "cancelled"
          /\ \A i \in DOMAIN payments : \A f \in DOMAIN payments[i] :
               (i # task[t].loaded._id \/ f # "status")
                 => payments'[i][f] = payments[i][f]
          /\ isPremium' = isPremium]_vars

\* a cancelPayment has succeeded on an order that a verifyPayment had
\* completed after the cancelPayment had loaded it: the payment id and the
\* signature are still stored, and the owner is still premium
C31_Witness ==
  /\ out.op = "cancelPayment" /\ out.result.kind = "ok"
  /\ out.loaded.status = "pending"
  /\ payments[out.loaded._id].status = "cancelled"
  /\ payments[out.loaded._id].razorpayPaymentId \notin Absent
  /\ payments[out.loaded._id].razorpaySignature \notin Absent
  /\ isPremium[out.loaded.userId]

(* -------------------------------- C32 ---------------------------------- *)
StoredOrderIds(p) == { p[i].razorpayOrderId : i \in DOMAIN p }
\* getPaymentHistory with these filters and page size lists record i on one
\* of its pages, however the server orders equal timestamps
Listed(i, userId, status, limit) ==
  \A ord \in Sorted(Query(userId, status)) :
    \E page \in 1..Len(payments) :
      \E k \in DOMAIN HistoryPage(ord, page, limit).payments :
        HistoryPage(ord, page, limit).payments[k]._id = i

\* C32: no step removes a record: the records stay where they are in the
\* collection and every razorpayOrderId that had a record has one after the
\* step; and in every state a failed or cancelled record is listed by the
\* history of its owner and by the history of all users, without status
\* filter and with its status as filter.
C32_RecordsAreKept ==
  /\ [][/\ Len(payments') >= Len(payments)
        /\ StoredOrderIds(payments) \subseteq StoredOrderIds(payments')
        /\ \A i \in DOMAIN payments : payments'[i]._id = payments[i]._id]_vars
  /\ [](\A i \in DOMAIN payments :
          payments[i].status \in {"failed", "cancelled"}
            => \A u \in {payments[i].userId, Undefined} :
                 \A st \in {payments[i].status, Undefined} :
                   \A limit \in 1..2 : Listed(i, u, st, limit))

\* an order was cancelled, and a webhook event that named it afterwards
\* found its record and left it as it was
C32_Witness ==
  /\ out.op = "handleWebhook" /\ out.loaded.status = "cancelled"
  /\ payments[out.loaded._id].status = "cancelled"
  /\ payments[out.loaded._id].razorpayOrderId = out.args.orderId
  /\ Listed(out.loaded._id, out.loaded.userId, "cancelled", 1)

(* -------------------------------- C33 ---------------------------------- *)
\* record i has the owner asked for and passes every filter that was given
Satisfies(i, userId, o) ==
  /\ (userId # Undefined => payments[i].userId = userId)
  /\ (o.status # Undefined => payments[i].status = o.status)
  /\ (o.planType # Undefined => payments[i].planType = o.planType)
  /\ (o.startDate # <<>> => payments[i].createdAt >= o.startDate[1])
  /\ (o.endDate # <<>> => payments[i].createdAt <= o.endDate[1])
  /\ (o.minAmount # <<>> => payments[i].amount >= o.minAmount[1])
  /\ (o.maxAmount # <<>> => payments[i].amount <= o.maxAmount[1])

\* the records a history response lists are those that satisfy its filters
ListsOnlyMatching(x) ==
  \A k \in DOMAIN x.result.data.payments :
    Satisfies(x.result.data.payments[k]._id, x.args.userId, x.args.options)
\* consecutive pages of one request share no record
ListsOnOnePage ==
  [][( /\ IsHistory(out) /\ IsHistory(out')
      /\ out'.args = [out.args EXCEPT !.page = @ + 1] )
    => PageIds(out) \cap PageIds(out') = {}]_vars

\* C33: every record a history response lists satisfies all filters given,
\* in particular is owned by the user asked for; the response counts every
\* record that satisfies them and no other; its records are ordered newest
\* first; and consecutive pages share no record, so that with these counts
\* every such record is on exactly one page.
C33_HistoryIsFiltered ==
  /\ [](IsHistory(out) =>
          /\ ListsOnlyMatching(out)
          /\ out.result.data.pagination.totalItems
               = Cardinality({ i \in DOMAIN payments :
                                 Satisfies(i, out.args.userId, out.args.options) })
          /\ \A j, k \in DOMAIN out.result.data.payments :
               j < k => out.result.data.payments[j].createdAt
                          >= out.result.data.payments[k].createdAt)
  /\ ListsOnOnePage

(* -------------------------------- C34 ---------------------------------- *)
\* a record state in which the transition to its status is applied in full
Whole(doc) ==
  /\ doc.status = "completed" => doc.razorpayPaymentId \notin Absent
  /\ doc.status = "failed" => doc.failureReason \notin Absent

\* C34: every record a history response lists is the stored record and is
\* whole: completed with a payment id, failed with a failure reason; the
\* statistics count as completed and failed exactly the records that are
\* whole with that status; and every step that makes a record completed or
\* failed leaves it whole, so that no state between two steps holds half of
\* a transition.
C34_ReadsSeeWholeTransitions ==
  /\ [](IsHistory(out) =>
          \A k \in DOMAIN out.result.data.payments :
            /\ Whole(out.result.data.payments[k])
            /\ out.result.data.payments[k]
                 = payments[out.result.data.payments[k]._id])
  /\ [](IsStats(out) =>
          /\ out.result.data.completedPayments
               = Cardinality({ i \in DOMAIN payments :
                                 /\ payments[i].status = "completed"
                                 /\ Whole(payments[i]) })
          /\ out.result.data.failedPayments
               = Cardinality({ i \in DOMAIN payments :
                                 /\ payments[i].status = "failed"
                                 /\ Whole(payments[i]) }))
  /\ [][\A i \in DOMAIN payments :
          payments'[i].status # payments[i].status => Whole(payments'[i])]_vars

\* the history has listed a completed record with its payment id while the
\* verifyPayment that completed it had not yet loaded the user, and a second
\* record was failed
C34_Witness ==
  /\ IsHistory(out)
  /\ \E k \in DOMAIN out.result.data.payments :
       /\ out.result.data.payments[k].status = "completed"
       /\ out.result.data.payments[k].razorpayPaymentId \in PaymentIds
       /\ \E t \in Tasks :
            /\ task[t].pc = "vp_findUser"
            /\ task[t].loaded._id = out.result.data.payments[k]._id
       /\ ~isPremium[out.result.data.payments[k].userId]

(* -------------------------------- C35 ---------------------------------- *)
IsVerifySignature(x) == x.op = "verifySignature"

\* C35: verifySignature returns a boolean and never an error; it returns
\* true exactly when the instance has a secret and the signature is the
\* string hmac(secret, orderId|paymentId), false for every other signature,
\* and false for every signature when the secret is missing.
C35_SignatureIsHmacOrFalse ==
  IsVerifySignature(out) =>
    /\ out.result.kind = "ok"
    /\ out.result.data.success \in BOOLEAN
    /\ out.result.data.success
         = ( /\ out.args.secret # Undefined
             /\ out.args.signature
                  = "hmac(" \o out.args.secret \o "," \o out.args.orderId
                      \o "|" \o out.args.paymentId \o ")" )
    /\ out.args.secret = Undefined => out.result.data.success = FALSE

\* an instance without secret was given the digest a secret named
\* 'undefined' would produce and returned false
C35_Witness ==
  /\ IsVerifySignature(out)
  /\ out.args.secret = Undefined
  /\ out.args.signature = Hmac(Undefined, Body(out.args.orderId, out.args.paymentId))
  /\ out.result.data.success = FALSE

(* -------------------------------- C36 ---------------------------------- *)
\* C36: every call of createOrder, verifyPayment, cancelPayment,
\* handlePaymentFailure and handleWebhook eventually returns, also when the
\* gateway does not answer: a request in flight leads to the task being
\* idle again.
C36_EveryCallReturns ==
  \A t \in Tasks : (task[t].pc # "idle") ~> (task[t].pc = "idle")

(* -------------------------------- C37 ---------------------------------- *)
\* C37: whenever a step adds a record to the collection, the user the new
\* record belongs to is not premium in the state the record is written to,
\* also when that user's flag was set while the createOrder was waiting for
\* the gateway.
C37_NoOrderSavedForPremium ==
  [][Len(payments') > Len(payments) =>
       /\ payments'[Len(payments')].status = "pending"
       /\ ~isPremium[payments'[Len(payments')].userId]]_vars

(* -------------------------------- C38 ---------------------------------- *)
\* C38: a step of a handlePaymentFailure request leaves the status and the
\* failure reason of every record owned by a user other than the requesting
\* user as they were.
C38_FailureOnlyOwnOrders ==
  [][\A t \in Tasks :
       (Continues(t) /\ task[t].op = "handlePaymentFailure")
         => \A i \in DOMAIN payments :
              payments[i].userId # task[t].args.userId
                => /\ payments'[i].status = payments[i].status
                   /\ payments'[i].failureReason = payments[i].failureReason]_vars

(* -------------------------------- C39 ---------------------------------- *)
\* the user stored as owner of the record the request t loaded
OwnerOfLoaded(t) == payments[task[t].loaded._id].userId

\* C39: a step that changes a premium flag is a step of a verifyPayment with
\* a correct signature or of a payment.captured event, and it sets the flag
\* of the owner of the order record that request loaded to true and leaves
\* the flag of every other user as it was; the steps in which such a request
\* writes the order record change no flag at all.
C39_OnlyOwnerBecomesPremium ==
  /\ [][isPremium' # isPremium =>
          \E t \in Tasks :
            /\ Continues(t) /\ IsCompleter(task[t])
            /\ isPremium' = [isPremium EXCEPT ![OwnerOfLoaded(t)] = TRUE]]_vars
  /\ [][payments' # payments => isPremium' = isPremium]_vars

\* a completion of an order of one user has ended: that user is premium, and
\* another user, who has an order of their own, is not
C39_Witness ==
  /\ IsCompleter(out) /\ out.result.kind = "ok"
  /\ out.loaded.status = "pending"
  /\ isPremium[out.loaded.userId]
  /\ \E i \in DOMAIN payments :
       /\ payments[i].userId # out.loaded.userId
       /\ ~isPremium[payments[i].userId]

====
